---------------------------- MODULE Spec2Model ----------------------------
(***************************************************************************)
(* Model of the Threads post automation pipeline:                          *)
(*   src/src/ai/gpt_client.py            GPTClient                         *)
(*   src/src/ai/prompt_builder.py        PromptBuilder                     *)
(*   src/src/automation/post_generator.py PostGenerator                    *)
(*   src/src/api/threads_api.py          ThreadsAPI                        *)
(*   src/src/storage/post_storage.py     PostStorage                       *)
(*   src/api/index.py, src/api/approve.py  HTTP handlers                   *)
(*                                                                         *)
(* A text is a sequence of Unicode code points (Python str).  An optional  *)
(* value (Python None or a value) is a sequence of length 0 or 1.          *)
(***************************************************************************)
EXTENDS Integers, Sequences, FiniteSets, TLC

(***************************************************************************)
(* Optional values                                                         *)
(***************************************************************************)
None == <<>>

Some(v) == <<v>>

IsNone(o) == o = <<>>

Val(o) == o[1]

(***************************************************************************)
(* Python str primitives over code-point sequences                         *)
(***************************************************************************)
NL == 10

SP == 32

QUOTE == 34

QMARK == 63

EXCL == 33

DOT == 46

\* characters str.strip() removes (str.isspace())
Whitespace ==
    {9, 10, 11, 12, 13, 28, 29, 30, 31, 32, 133, 160, 5760} \cup (8192..8202)
        \cup {8232, 8233, 8239, 8287, 12288}

Rep(c, n) == [i \in 1..n |-> c]

\* str.lower(), for the ASCII letters the model's texts use
LowerChar(c) == IF c \in 65..90 THEN c + 32 ELSE c

lower(t) == [i \in 1..Len(t) |-> LowerChar(t[i])]

startswith(t, p) == Len(t) >= Len(p) /\ SubSeq(t, 1, Len(p)) = p

endswith_char(t, c) == Len(t) >= 1 /\ t[Len(t)] = c

\* "sub in t"
contains(t, sub) ==
    \E i \in 0..(Len(t) - Len(sub)) : SubSeq(t, i + 1, i + Len(sub)) = sub

\* last / first position in lo..hi whose character is in S (neg = FALSE) or
\* is not in S (neg = TRUE); 0 when there is none.  The scan is split in
\* halves so that its nesting depth stays logarithmic.
RECURSIVE LastPos(_, _, _, _, _)
LastPos(t, S, neg, lo, hi) ==
    IF lo > hi THEN 0
    ELSE IF lo = hi THEN (IF (t[lo] \in S) # neg THEN lo ELSE 0)
    ELSE LET mid == (lo + hi) \div 2
             r == LastPos(t, S, neg, mid + 1, hi)
         IN  IF r # 0 THEN r ELSE LastPos(t, S, neg, lo, mid)

RECURSIVE FirstPos(_, _, _, _, _)
FirstPos(t, S, neg, lo, hi) ==
    IF lo > hi THEN 0
    ELSE IF lo = hi THEN (IF (t[lo] \in S) # neg THEN lo ELSE 0)
    ELSE LET mid == (lo + hi) \div 2
             l == FirstPos(t, S, neg, lo, mid)
         IN  IF l # 0 THEN l ELSE FirstPos(t, S, neg, mid + 1, hi)

\* str.strip()
strip(t) ==
    LET f == FirstPos(t, Whitespace, TRUE, 1, Len(t))
    IN  IF f = 0 THEN <<>> ELSE SubSeq(t, f, LastPos(t, Whitespace, TRUE, 1, Len(t)))

\* str.rfind(c) on t, as a 1-based position; 0 when c does not occur
\* (Python: 0-based index, -1 when absent)
rfind(t, c) == LastPos(t, {c}, FALSE, 1, Len(t))

MaxOf(a, b) == IF a >= b THEN a ELSE b

\* decimal digits of n, as str(n) / f"{n}" renders them
RECURSIVE str_int(_)
str_int(n) == IF n < 10 THEN <<48 + n>> ELSE str_int(n \div 10) \o <<48 + (n % 10)>>

(***************************************************************************)
(* GPTClient: emoji removal, truncation, validation                        *)
(***************************************************************************)
\* the character class of emoji_pattern: inclusive code-point ranges
EmojiRanges ==
    { <<128512, 128591>>,   \* 1F600-1F64F emoticons
      <<127744, 128511>>,   \* 1F300-1F5FF symbols & pictographs
      <<128640, 128767>>,   \* 1F680-1F6FF transport & map
      <<127456, 127487>>,   \* 1F1E0-1F1FF flags
      <<9986, 10160>>,      \* 2702-27B0 dingbats
      <<9410, 127569>>,     \* 24C2-1F251 enclosed characters
      <<129280, 129535>>,   \* 1F900-1F9FF supplemental symbols
      <<129536, 129647>>,   \* 1FA00-1FA6F chess symbols
      <<129648, 129791>>,   \* 1FA70-1FAFF extended-A
      <<9728, 9983>>,       \* 2600-26FF miscellaneous symbols
      <<9984, 10175>>  }    \* 2700-27BF dingbats

IsEmoji(c) == \E r \in EmojiRanges : r[1] <= c /\ c <= r[2]

NotEmoji(c) == ~IsEmoji(c)

HasEmoji(t) == \E i \in 1..Len(t) : IsEmoji(t[i])

remove_emojis(text) == strip(SelectSeq(text, NotEmoji))

_truncate_text_smart(text, max_chars) ==
    IF Len(text) <= max_chars THEN text
    ELSE
      LET truncated == SubSeq(text, 1, max_chars)
          \* rfind positions are 1-based: Python index = position - 1
          q == rfind(truncated, QMARK)
          e == rfind(truncated, EXCL)
          d == rfind(truncated, DOT)
          Near(p) == p >= 1 /\ (p - 1) * 10 > max_chars * 7
          last_break == MaxOf(rfind(truncated, SP), rfind(truncated, NL))
      IN  IF Near(q) THEN strip(SubSeq(text, 1, q))
          ELSE IF Near(e) THEN strip(SubSeq(text, 1, e))
          ELSE IF Near(d) THEN strip(SubSeq(text, 1, d))
          ELSE IF last_break >= 1 /\ (last_break - 1) * 10 > max_chars * 8
               THEN strip(SubSeq(text, 1, last_break - 1))
          ELSE strip(truncated)

WHAT == <<119, 104, 97, 116>>

HOW == <<104, 111, 119>>

WHY == <<119, 104, 121>>

SHARE == <<115, 104, 97, 114, 101>>

THOUGHTS == <<116, 104, 111, 117, 103, 104, 116, 115>>

\* the test truncate_to_limit applies to a stripped line
IsCtaLine(line) ==
    /\ Len(line) > 0
    /\ \/ endswith_char(line, QMARK)
       \/ endswith_char(line, EXCL)
       \/ startswith(lower(line), WHAT)
       \/ startswith(lower(line), HOW)
       \/ startswith(lower(line), WHY)
       \/ contains(lower(line), SHARE)
       \/ contains(lower(line), THOUGHTS)

\* text.split('\n'): a line is identified by the position of its first
\* character (1, or one past a newline)
LineStarts(text) == {1} \cup {p + 1 : p \in {i \in 1..Len(text) : text[i] = NL}}

LineEndFrom(text, s) ==
    LET p == FirstPos(text, {NL}, FALSE, s, Len(text))
    IN  IF p = 0 THEN Len(text) ELSE p - 1

LineAt(text, s) == SubSeq(text, s, LineEndFrom(text, s))

truncate_to_limit(text, max_chars) ==
    IF Len(text) <= max_chars THEN text
    ELSE
      LET cta == {s \in LineStarts(text) : IsCtaLine(strip(LineAt(text, s)))}
      IN  IF cta = {} THEN _truncate_text_smart(text, max_chars)
          ELSE
            LET s == CHOOSE x \in cta : \A y \in cta : y <= x
                last_line == strip(LineAt(text, s))
                \* '\n'.join(lines[:last_line_index])
                text_before_last_line ==
                    IF s = 1 THEN <<>> ELSE SubSeq(text, 1, s - 2)
            IN  IF Len(text_before_last_line) + Len(last_line) + 1 <= max_chars
                THEN \* the inner "> max_chars" test is then false
                     text_before_last_line \o <<NL, NL>> \o last_line
                ELSE _truncate_text_smart(text, max_chars)

MSG_EMPTY == <<67, 111, 110, 116, 101, 110, 116, 32, 105, 115, 32, 101, 109, 112, 116, 121>>

MSG_TOO_LONG_PRE ==
    <<67, 111, 110, 116, 101, 110, 116, 32, 116, 111, 111, 32, 108, 111, 110, 103, 32, 40>>

MSG_TOO_LONG_POST ==
    <<32, 99, 104, 97, 114, 115, 44, 32, 109, 97, 120, 32, 53, 48, 48, 41>>

MSG_TOO_SHORT ==
    <<67, 111, 110, 116, 101, 110, 116, 32, 116, 111, 111, 32, 115, 104, 111, 114, 116>>

MSG_EMOJI ==
    <<67, 111, 110, 116, 101, 110, 116, 32, 99, 111, 110, 116, 97, 105, 110, 115, 32,
      101, 109, 111, 106, 105, 115, 32, 40, 110, 111, 116, 32, 97, 108, 108, 111, 119,
      101, 100, 41>>

MSG_INCOMPLETE ==
    <<67, 111, 110, 116, 101, 110, 116, 32, 97, 112, 112, 101, 97, 114, 115, 32, 105,
      110, 99, 111, 109, 112, 108, 101, 116, 101>>

HERES == <<72, 101, 114, 101, 39, 115>>

\* validate_content without the upper length check
validate_content_no_max(text) ==
    IF Len(text) = 0 \/ Len(strip(text)) = 0 THEN <<FALSE, MSG_EMPTY>>
    ELSE IF Len(text) < 10 THEN <<FALSE, MSG_TOO_SHORT>>
    ELSE IF HasEmoji(text) THEN <<FALSE, MSG_EMOJI>>
    ELSE IF startswith(text, HERES) /\ Len(text) < 50 THEN <<FALSE, MSG_INCOMPLETE>>
    ELSE <<TRUE, <<>>>>

\* a validator that looks for emojis before it looks at the length
validate_content_emoji_first(text) ==
    IF Len(text) = 0 \/ Len(strip(text)) = 0 THEN <<FALSE, MSG_EMPTY>>
    ELSE IF HasEmoji(text) THEN <<FALSE, MSG_EMOJI>>
    ELSE IF Len(text) > 500
         THEN <<FALSE, MSG_TOO_LONG_PRE \o str_int(Len(text)) \o MSG_TOO_LONG_POST>>
    ELSE IF Len(text) < 10 THEN <<FALSE, MSG_TOO_SHORT>>
    ELSE IF startswith(text, HERES) /\ Len(text) < 50 THEN <<FALSE, MSG_INCOMPLETE>>
    ELSE <<TRUE, <<>>>>

\* a validator that calls every text beginning with "Here's" incomplete
validate_content_heres_any(text) ==
    IF Len(text) = 0 \/ Len(strip(text)) = 0 THEN <<FALSE, MSG_EMPTY>>
    ELSE IF Len(text) > 500
         THEN <<FALSE, MSG_TOO_LONG_PRE \o str_int(Len(text)) \o MSG_TOO_LONG_POST>>
    ELSE IF Len(text) < 10 THEN <<FALSE, MSG_TOO_SHORT>>
    ELSE IF HasEmoji(text) THEN <<FALSE, MSG_EMOJI>>
    ELSE IF startswith(text, HERES) THEN <<FALSE, MSG_INCOMPLETE>>
    ELSE <<TRUE, <<>>>>

\* returns <<is_valid, error_message>>
validate_content(text) ==
    IF Len(text) = 0 \/ Len(strip(text)) = 0 THEN <<FALSE, MSG_EMPTY>>
    ELSE IF Len(text) > 500
         THEN <<FALSE, MSG_TOO_LONG_PRE \o str_int(Len(text)) \o MSG_TOO_LONG_POST>>
    ELSE IF Len(text) < 10 THEN <<FALSE, MSG_TOO_SHORT>>
    ELSE IF HasEmoji(text) THEN <<FALSE, MSG_EMOJI>>
    ELSE IF startswith(text, HERES) /\ Len(text) < 50 THEN <<FALSE, MSG_INCOMPLETE>>
    ELSE <<TRUE, <<>>>>


(***************************************************************************)
(* State                                                                   *)
(***************************************************************************)
VARIABLES
    gen,            \* the call in progress on the generator or one of its clients (gen.log: the requests in flight when handlers run side by side)
    batch,          \* the post_multiple_approved call in progress
    posts,          \* rows of the pending_posts table; a row's id is its index
    last_response,  \* the response of the last HTTP handler that ran
    posted          \* threads the Threads API has accepted and published

vars == <<gen, batch, posts, last_response, posted>>

(***************************************************************************)
(* PromptBuilder                                                           *)
(***************************************************************************)
\* "- MAXIMUM 500 characters - aim for 400-450 characters to be safe"
LENGTH_REQUIREMENT ==
    <<45, 32, 77, 65, 88, 73, 77, 85, 77, 32, 53, 48, 48, 32, 99, 104, 97, 114, 97, 99, 116,
      101, 114, 115, 32, 45, 32, 97, 105, 109, 32, 102, 111, 114, 32, 52, 48, 48, 45, 52, 53,
      48, 32, 99, 104, 97, 114, 97, 99, 116, 101, 114, 115, 32, 116, 111, 32, 98, 101, 32, 115,
      97, 102, 101>>

\* "- CRITICAL: MAXIMUM 500 characters - MUST be under 500. Aim for 400-450 characters. Be very concise."
LENGTH_REQUIREMENT_STRICT ==
    <<45, 32, 67, 82, 73, 84, 73, 67, 65, 76, 58, 32, 77, 65, 88, 73, 77, 85, 77, 32, 53, 48,
      48, 32, 99, 104, 97, 114, 97, 99, 116, 101, 114, 115, 32, 45, 32, 77, 85, 83, 84, 32, 98,
      101, 32, 117, 110, 100, 101, 114, 32, 53, 48, 48, 46, 32, 65, 105, 109, 32, 102, 111,
      114, 32, 52, 48, 48, 45, 52, 53, 48, 32, 99, 104, 97, 114, 97, 99, 116, 101, 114, 115,
      46, 32, 66, 101, 32, 118, 101, 114, 121, 32, 99, 111, 110, 99, 105, 115, 101, 46>>

\* "Create an engaging Threads post about: "
HEAD_ABOUT ==
    <<67, 114, 101, 97, 116, 101, 32, 97, 110, 32, 101, 110, 103, 97, 103, 105, 110, 103, 32,
      84, 104, 114, 101, 97, 100, 115, 32, 112, 111, 115, 116, 32, 97, 98, 111, 117, 116, 58, 32>>

\* "Create an engaging Threads post that matches your authentic style"
HEAD_STYLE ==
    <<67, 114, 101, 97, 116, 101, 32, 97, 110, 32, 101, 110, 103, 97, 103, 105, 110, 103, 32,
      84, 104, 114, 101, 97, 100, 115, 32, 112, 111, 115, 116, 32, 116, 104, 97, 116, 32, 109,
      97, 116, 99, 104, 101, 115, 32, 121, 111, 117, 114, 32, 97, 117, 116, 104, 101, 110, 116,
      105, 99, 32, 115, 116, 121, 108, 101>>

\* "Create a short, casual Threads post looking to connect with "
HEAD_CONNECT ==
    <<67, 114, 101, 97, 116, 101, 32, 97, 32, 115, 104, 111, 114, 116, 44, 32, 99, 97, 115,
      117, 97, 108, 32, 84, 104, 114, 101, 97, 100, 115, 32, 112, 111, 115, 116, 32, 108, 111,
      111, 107, 105, 110, 103, 32, 116, 111, 32, 99, 111, 110, 110, 101, 99, 116, 32, 119, 105,
      116, 104, 32>>

\* the parts of a prompt that vary; the builder joins them with the fixed
\* lines around length_requirement (see post_prompt_text)
build_post_prompt(brief, strict_length) ==
    [ builder            |-> "build_post_prompt",
      head               |-> HEAD_ABOUT,
      topic              |-> Some(brief.topic),
      style_analysis     |-> None,
      pillar             |-> IF brief.pillar # <<>> THEN Some(brief.pillar) ELSE None,
      length_requirement |-> IF strict_length THEN LENGTH_REQUIREMENT_STRICT
                             ELSE LENGTH_REQUIREMENT ]

build_style_based_prompt(topic, style_analysis, strict_length) ==
    [ builder            |-> "build_style_based_prompt",
      head               |-> IF ~IsNone(topic) /\ Val(topic) # <<>>
                             THEN HEAD_ABOUT ELSE HEAD_STYLE,
      topic              |-> IF ~IsNone(topic) /\ Val(topic) # <<>> THEN topic ELSE None,
      style_analysis     |-> IF style_analysis # <<>> THEN Some(style_analysis)
                             ELSE Some(<<"No style analysis provided - using default style">>),
      pillar             |-> None,
      length_requirement |-> IF strict_length THEN LENGTH_REQUIREMENT_STRICT
                             ELSE LENGTH_REQUIREMENT ]

\* "- MAXIMUM 200 characters - keep it short and casual (aim for 100-150 characters)"
CONNECTION_LENGTH_REQUIREMENT ==
    <<45, 32, 77, 65, 88, 73, 77, 85, 77, 32, 50, 48, 48, 32, 99, 104, 97, 114, 97, 99, 116,
      101, 114, 115, 32, 45, 32, 107, 101, 101, 112, 32, 105, 116, 32, 115, 104, 111, 114, 116,
      32, 97, 110, 100, 32, 99, 97, 115, 117, 97, 108, 32, 40, 97, 105, 109, 32, 102, 111, 114,
      32, 49, 48, 48, 45, 49, 53, 48, 32, 99, 104, 97, 114, 97, 99, 116, 101, 114, 115, 41>>

\* "- CRITICAL: MAXIMUM 200 characters - MUST be under 200. Keep it very short and casual (aim for 100-150 characters)."
CONNECTION_LENGTH_REQUIREMENT_STRICT ==
    <<45, 32, 67, 82, 73, 84, 73, 67, 65, 76, 58, 32, 77, 65, 88, 73, 77, 85, 77, 32, 50, 48,
      48, 32, 99, 104, 97, 114, 97, 99, 116, 101, 114, 115, 32, 45, 32, 77, 85, 83, 84, 32, 98,
      101, 32, 117, 110, 100, 101, 114, 32, 50, 48, 48, 46, 32, 75, 101, 101, 112, 32, 105,
      116, 32, 118, 101, 114, 121, 32, 115, 104, 111, 114, 116, 32, 97, 110, 100, 32, 99, 97,
      115, 117, 97, 108, 32, 40, 97, 105, 109, 32, 102, 111, 114, 32, 49, 48, 48, 45, 49, 53,
      48, 32, 99, 104, 97, 114, 97, 99, 116, 101, 114, 115, 41, 46>>

\* a connection builder that states the length directive of the other builders
build_connection_prompt_500(connection_type, strict_length) ==
    [ builder            |-> "build_connection_prompt",
      head               |-> HEAD_CONNECT,
      connection_type    |-> IF ~IsNone(connection_type) /\ Val(connection_type) # <<>>
                             THEN connection_type ELSE None,
      length_requirement |-> IF strict_length THEN LENGTH_REQUIREMENT_STRICT
                             ELSE LENGTH_REQUIREMENT ]

build_connection_prompt(connection_type, strict_length) ==
    [ builder            |-> "build_connection_prompt",
      head               |-> HEAD_CONNECT,
      connection_type    |-> IF ~IsNone(connection_type) /\ Val(connection_type) # <<>>
                             THEN connection_type ELSE None,
      length_requirement |-> IF strict_length THEN CONNECTION_LENGTH_REQUIREMENT_STRICT
                             ELSE CONNECTION_LENGTH_REQUIREMENT ]

(***************************************************************************)
(* "\n".join(prompt_parts): the prompt text of the brief-based and of the   *)
(* connection builder (no brand profile loaded, post type "Text")          *)
(***************************************************************************)
\* the fixed lines of build_post_prompt before length_requirement, joined
REQUIREMENTS_HEAD ==
    <<10, 67, 82, 73, 84, 73, 67, 65, 76, 32, 82, 69, 81, 85, 73, 82, 69, 77, 69, 78, 84, 83,
      58, 10, 45, 32, 78, 69, 86, 69, 82, 32, 117, 115, 101, 32, 101, 109, 111, 106, 105, 115,
      32, 40, 128640, 44, 32, 129300, 44, 32, 128274, 44, 32, 128071, 44, 32, 101, 116, 99, 46,
      41, 32, 45, 32, 116, 104, 101, 121, 32, 97, 114, 101, 32, 83, 84, 82, 73, 67, 84, 76, 89,
      32, 70, 79, 82, 66, 73, 68, 68, 69, 78, 10, 45, 32, 85, 115, 101, 32, 79, 78, 76, 89, 32,
      112, 108, 97, 105, 110, 32, 116, 101, 120, 116, 32, 97, 110, 100, 32, 115, 105, 109, 112,
      108, 101, 32, 115, 121, 109, 98, 111, 108, 115, 32, 102, 111, 114, 32, 100, 101, 99, 111,
      114, 97, 116, 105, 111, 110, 10, 45, 32, 65, 108, 108, 111, 119, 101, 100, 32, 115, 121,
      109, 98, 111, 108, 115, 58, 32, 8226, 32, 8594, 32, 10148, 32, 9656, 32, 9642, 32, 9733,
      32, 10023, 32, 10022, 32, 40, 98, 117, 108, 108, 101, 116, 115, 44, 32, 97, 114, 114,
      111, 119, 115, 44, 32, 115, 116, 97, 114, 115, 32, 111, 110, 108, 121, 41>>

\* the fixed lines of build_post_prompt after length_requirement, joined
REQUIREMENTS_TAIL ==
    <<45, 32, 66, 101, 32, 99, 111, 110, 99, 105, 115, 101, 32, 97, 110, 100, 32, 100, 105,
      114, 101, 99, 116, 32, 45, 32, 101, 118, 101, 114, 121, 32, 119, 111, 114, 100, 32, 99,
      111, 117, 110, 116, 115, 10, 45, 32, 77, 97, 107, 101, 32, 105, 116, 32, 99, 111, 110,
      118, 101, 114, 115, 97, 116, 105, 111, 110, 97, 108, 32, 97, 110, 100, 32, 97, 117, 116,
      104, 101, 110, 116, 105, 99, 10, 45, 32, 65, 100, 100, 32, 118, 97, 108, 117, 101, 32,
      111, 114, 32, 105, 110, 115, 105, 103, 104, 116, 10, 45, 32, 85, 115, 101, 32, 101, 110,
      103, 97, 103, 105, 110, 103, 32, 108, 97, 110, 103, 117, 97, 103, 101, 10, 45, 32, 78,
      111, 32, 104, 97, 115, 104, 116, 97, 103, 115, 32, 117, 110, 108, 101, 115, 115, 32, 110,
      97, 116, 117, 114, 97, 108, 10, 45, 32, 87, 114, 105, 116, 101, 32, 105, 110, 32, 102,
      105, 114, 115, 116, 32, 111, 114, 32, 115, 101, 99, 111, 110, 100, 32, 112, 101, 114,
      115, 111, 110, 32, 119, 104, 101, 110, 32, 97, 112, 112, 114, 111, 112, 114, 105, 97,
      116, 101, 10, 45, 32, 65, 76, 87, 65, 89, 83, 32, 101, 110, 100, 32, 119, 105, 116, 104,
      32, 97, 32, 99, 111, 109, 112, 108, 101, 116, 101, 32, 113, 117, 101, 115, 116, 105, 111,
      110, 32, 111, 114, 32, 99, 97, 108, 108, 45, 116, 111, 45, 97, 99, 116, 105, 111, 110,
      32, 45, 32, 116, 104, 105, 115, 32, 105, 115, 32, 82, 69, 81, 85, 73, 82, 69, 68, 10, 45,
      32, 69, 110, 115, 117, 114, 101, 32, 116, 104, 101, 32, 102, 105, 110, 97, 108, 32, 113,
      117, 101, 115, 116, 105, 111, 110, 47, 67, 84, 65, 32, 105, 115, 32, 99, 111, 109, 112,
      108, 101, 116, 101, 32, 97, 110, 100, 32, 110, 111, 116, 32, 99, 117, 116, 32, 111, 102,
      102, 10, 10, 69, 120, 97, 109, 112, 108, 101, 115, 32, 111, 102, 32, 97, 108, 108, 111,
      119, 101, 100, 32, 102, 111, 114, 109, 97, 116, 116, 105, 110, 103, 58, 10, 8226, 32, 80,
      111, 105, 110, 116, 32, 111, 110, 101, 10, 8594, 32, 80, 111, 105, 110, 116, 32, 116,
      119, 111, 10, 9733, 32, 75, 101, 121, 32, 105, 110, 115, 105, 103, 104, 116, 10, 10, 71,
      101, 110, 101, 114, 97, 116, 101, 32, 79, 78, 76, 89, 32, 116, 104, 101, 32, 112, 111,
      115, 116, 32, 116, 101, 120, 116, 44, 32, 110, 111, 116, 104, 105, 110, 103, 32, 101,
      108, 115, 101, 46, 32, 78, 111, 32, 113, 117, 111, 116, 101, 115, 44, 32, 110, 111, 32,
      101, 120, 112, 108, 97, 110, 97, 116, 105, 111, 110, 115, 46, 32, 78, 79, 32, 69, 77, 79,
      74, 73, 83, 46, 32, 77, 65, 88, 32, 53, 48, 48, 32, 67, 72, 65, 82, 65, 67, 84, 69, 82,
      83, 46, 32, 77, 85, 83, 84, 32, 101, 110, 100, 32, 119, 105, 116, 104, 32, 97, 32, 99,
      111, 109, 112, 108, 101, 116, 101, 32, 113, 117, 101, 115, 116, 105, 111, 110, 32, 111,
      114, 32, 67, 84, 65, 46>>

\* the fixed lines of build_connection_prompt before length_requirement, joined
CONNECTION_REQUIREMENTS_HEAD ==
    <<10, 80, 79, 83, 84, 32, 84, 89, 80, 69, 58, 32, 83, 104, 111, 114, 116, 44, 32, 99, 97,
      115, 117, 97, 108, 32, 110, 101, 116, 119, 111, 114, 107, 105, 110, 103, 47, 99, 111,
      110, 110, 101, 99, 116, 105, 111, 110, 32, 112, 111, 115, 116, 10, 10, 67, 82, 73, 84,
      73, 67, 65, 76, 32, 82, 69, 81, 85, 73, 82, 69, 77, 69, 78, 84, 83, 58, 10, 45, 32, 78,
      69, 86, 69, 82, 32, 117, 115, 101, 32, 101, 109, 111, 106, 105, 115, 32, 40, 128640, 44,
      32, 129300, 44, 32, 128274, 44, 32, 128071, 44, 32, 101, 116, 99, 46, 41, 32, 45, 32,
      116, 104, 101, 121, 32, 97, 114, 101, 32, 83, 84, 82, 73, 67, 84, 76, 89, 32, 70, 79, 82,
      66, 73, 68, 68, 69, 78, 10, 45, 32, 85, 115, 101, 32, 79, 78, 76, 89, 32, 112, 108, 97,
      105, 110, 32, 116, 101, 120, 116, 32, 45, 32, 110, 111, 32, 115, 121, 109, 98, 111, 108,
      115, 32, 110, 101, 101, 100, 101, 100, 32, 102, 111, 114, 32, 116, 104, 105, 115, 32,
      116, 121, 112, 101, 32, 111, 102, 32, 112, 111, 115, 116>>

\* the fixed lines of build_connection_prompt after length_requirement, joined
CONNECTION_REQUIREMENTS_TAIL ==
    <<45, 32, 66, 101, 32, 99, 97, 115, 117, 97, 108, 44, 32, 99, 111, 110, 118, 101, 114, 115,
      97, 116, 105, 111, 110, 97, 108, 44, 32, 97, 110, 100, 32, 100, 105, 114, 101, 99, 116,
      10, 45, 32, 75, 101, 101, 112, 32, 105, 116, 32, 115, 105, 109, 112, 108, 101, 32, 97,
      110, 100, 32, 97, 117, 116, 104, 101, 110, 116, 105, 99, 10, 45, 32, 70, 111, 99, 117,
      115, 32, 111, 110, 32, 99, 111, 110, 110, 101, 99, 116, 105, 111, 110, 47, 110, 101, 116,
      119, 111, 114, 107, 105, 110, 103, 10, 45, 32, 85, 115, 101, 32, 102, 105, 114, 115, 116,
      32, 112, 101, 114, 115, 111, 110, 32, 40, 73, 44, 32, 109, 101, 44, 32, 109, 121, 41, 32,
      111, 114, 32, 115, 101, 99, 111, 110, 100, 32, 112, 101, 114, 115, 111, 110, 32, 40, 121,
      111, 117, 44, 32, 121, 111, 117, 114, 41, 10, 45, 32, 69, 110, 100, 32, 119, 105, 116,
      104, 32, 97, 32, 113, 117, 101, 115, 116, 105, 111, 110, 32, 116, 111, 32, 101, 110, 99,
      111, 117, 114, 97, 103, 101, 32, 101, 110, 103, 97, 103, 101, 109, 101, 110, 116, 10, 10,
      83, 84, 89, 76, 69, 32, 69, 88, 65, 77, 80, 76, 69, 83, 58, 10, 45, 32, 39, 76, 111, 111,
      107, 105, 110, 103, 32, 102, 111, 114, 32, 111, 116, 104, 101, 114, 32, 102, 111, 117,
      110, 100, 101, 114, 115, 32, 105, 110, 32, 116, 104, 101, 32, 83, 97, 97, 83, 32, 115,
      112, 97, 99, 101, 46, 32, 72, 101, 114, 101, 63, 39, 10, 45, 32, 39, 83, 116, 97, 114,
      116, 117, 112, 32, 102, 111, 117, 110, 100, 101, 114, 115, 46, 32, 72, 101, 114, 101, 63,
      39, 10, 45, 32, 39, 84, 104, 114, 101, 97, 100, 115, 46, 32, 73, 32, 97, 109, 32, 108,
      111, 111, 107, 105, 110, 103, 32, 116, 111, 32, 99, 111, 110, 110, 101, 99, 116, 32, 119,
      105, 116, 104, 32, 100, 101, 118, 101, 108, 111, 112, 101, 114, 115, 32, 98, 117, 105,
      108, 100, 105, 110, 103, 32, 65, 80, 73, 32, 105, 110, 116, 101, 103, 114, 97, 116, 105,
      111, 110, 115, 46, 32, 65, 110, 121, 111, 110, 101, 63, 39, 10, 45, 32, 39, 72, 101, 121,
      44, 32, 73, 32, 97, 109, 32, 108, 111, 111, 107, 105, 110, 103, 32, 116, 111, 32, 99,
      111, 110, 110, 101, 99, 116, 32, 119, 105, 116, 104, 32, 83, 77, 66, 115, 32, 109, 111,
      100, 101, 114, 110, 105, 122, 105, 110, 103, 32, 116, 104, 101, 105, 114, 32, 111, 112,
      101, 114, 97, 116, 105, 111, 110, 115, 46, 32, 87, 104, 111, 32, 101, 108, 115, 101, 32,
      105, 115, 32, 105, 110, 32, 116, 104, 105, 115, 32, 115, 112, 97, 99, 101, 63, 39, 10,
      45, 32, 39, 65, 110, 121, 111, 110, 101, 32, 111, 117, 116, 32, 116, 104, 101, 114, 101,
      32, 98, 117, 105, 108, 100, 105, 110, 103, 32, 105, 110, 116, 101, 114, 110, 97, 108, 32,
      116, 111, 111, 108, 115, 32, 102, 111, 114, 32, 115, 101, 114, 118, 105, 99, 101, 32, 99,
      111, 109, 112, 97, 110, 105, 101, 115, 63, 32, 87, 111, 117, 108, 100, 32, 108, 111, 118,
      101, 32, 116, 111, 32, 99, 111, 110, 110, 101, 99, 116, 46, 39, 10, 10, 71, 101, 110,
      101, 114, 97, 116, 101, 32, 79, 78, 76, 89, 32, 116, 104, 101, 32, 112, 111, 115, 116,
      32, 116, 101, 120, 116, 44, 32, 110, 111, 116, 104, 105, 110, 103, 32, 101, 108, 115,
      101, 46, 32, 78, 111, 32, 113, 117, 111, 116, 101, 115, 44, 32, 110, 111, 32, 101, 120,
      112, 108, 97, 110, 97, 116, 105, 111, 110, 115, 46, 32, 78, 79, 32, 69, 77, 79, 74, 73,
      83, 46, 32, 77, 65, 88, 32, 50, 48, 48, 32, 67, 72, 65, 82, 65, 67, 84, 69, 82, 83, 46,
      32, 75, 101, 101, 112, 32, 105, 116, 32, 115, 104, 111, 114, 116, 32, 97, 110, 100, 32,
      99, 97, 115, 117, 97, 108, 46>>

post_prompt_text(prompt) ==
    prompt.head \o Val(prompt.topic)
        \o (IF IsNone(prompt.pillar) THEN <<>> ELSE \* "\nContent pillar: " and the pillar
                 <<NL>> \o <<10, 67, 111, 110, 116, 101, 110, 116, 32, 112, 105, 108, 108, 97, 114, 58, 32>>
                        \o Val(prompt.pillar))
        \o <<NL>> \o REQUIREMENTS_HEAD
        \o <<NL>> \o prompt.length_requirement
        \o <<NL>> \o REQUIREMENTS_TAIL

connection_prompt_text(prompt) ==
    prompt.head
        \o (IF IsNone(prompt.connection_type)
            THEN <<111, 116, 104, 101, 114, 115, 32, 105, 110, 32, 121, 111, 117, 114, 32, 115, 112, 97, 99, 101>>  \* "others in your space"
            ELSE Val(prompt.connection_type))
        \o <<NL>> \o CONNECTION_REQUIREMENTS_HEAD
        \o <<NL>> \o prompt.length_requirement
        \o <<NL>> \o CONNECTION_REQUIREMENTS_TAIL

(***************************************************************************)
(* PostAnalyzer (the fields the generation path reads)                     *)
(***************************************************************************)
\* an analyzer that also counts the posts without text
analyze_posts_keeps_empty(ps) ==
    LET texts == [i \in 1..Len(ps) |-> ps[i].text]
        lens  == {Len(texts[i]) : i \in 1..Len(texts)}
    IN  IF Len(ps) = 0 THEN None
        ELSE Some([ total_posts   |-> Len(texts),
                    min_length    |-> CHOOSE n \in lens : \A m \in lens : n <= m,
                    max_length    |-> CHOOSE n \in lens : \A m \in lens : n >= m,
                    example_posts |-> SubSeq(texts, 1, IF Len(texts) < 5 THEN Len(texts) ELSE 5) ])

\* posts: sequence of [text |-> <code points>]; {} is modelled as None
analyze_posts(ps) ==
    LET texts == SelectSeq([i \in 1..Len(ps) |-> ps[i].text], LAMBDA t : Len(t) > 0)
        lens  == {Len(texts[i]) : i \in 1..Len(texts)}
    IN  IF Len(ps) = 0 \/ Len(texts) = 0 THEN None
        ELSE Some([ total_posts   |-> Len(texts),
                    min_length    |-> CHOOSE n \in lens : \A m \in lens : n <= m,
                    max_length    |-> CHOOSE n \in lens : \A m \in lens : n >= m,
                    example_posts |-> SubSeq(texts, 1, IF Len(texts) < 5 THEN Len(texts) ELSE 5) ])

ELLIPSIS == <<46, 46, 46>>

\* a formatter that writes the block's frame around an empty analysis too
format_for_prompt_framed(analysis) ==
    LET ex == IF IsNone(analysis) THEN <<>> ELSE Val(analysis).example_posts
    IN  <<"POST STYLE ANALYSIS:", "Example posts to match style:">>
        \o [i \in 1..Len(ex) |->
               IF Len(ex[i]) > 300 THEN SubSeq(ex[i], 1, 300) \o ELLIPSIS ELSE ex[i]]
        \o <<"Generate a post that matches this style and structure.">>

\* the joined parts; "" is <<>>
format_for_prompt(analysis) ==
    IF IsNone(analysis) THEN <<>>
    ELSE LET ex == Val(analysis).example_posts
         IN  <<"POST STYLE ANALYSIS:", "Example posts to match style:">>
             \o [i \in 1..Len(ex) |->
                    IF Len(ex[i]) > 300 THEN SubSeq(ex[i], 1, 300) \o ELLIPSIS ELSE ex[i]]
             \o <<"Generate a post that matches this style and structure.">>

(***************************************************************************)
(* GPTClient.generate_post                                                 *)
(***************************************************************************)
max_retries == 3

retry_delay == 2

\* lines 188-201: what generate_post does to the content the model returned
post_process(content) ==
    LET stripped == strip(content)
        unquoted == IF startswith(stripped, <<QUOTE>>) /\ endswith_char(stripped, QUOTE)
                    THEN SubSeq(stripped, 2, Len(stripped) - 1)
                    ELSE stripped
        no_emoji == remove_emojis(unquoted)
    IN  IF Len(no_emoji) > 500 THEN truncate_to_limit(no_emoji, 500) ELSE no_emoji

F_GENERATE ==
    <<70, 97, 105, 108, 101, 100, 32, 116, 111, 32, 103, 101, 110, 101, 114, 97, 116,
      101, 32, 112, 111, 115, 116>>

F_FETCH ==
    <<67, 111, 117, 108, 100, 32, 110, 111, 116, 32, 102, 101, 116, 99, 104, 32, 112,
      111, 115, 116, 115, 32, 102, 111, 114, 32, 97, 110, 97, 108, 121, 115, 105, 115>>

F_ANALYSIS ==
    <<80, 111, 115, 116, 32, 97, 110, 97, 108, 121, 115, 105, 115, 32, 102, 97, 105,
      108, 101, 100>>

TOO_LONG == <<116, 111, 111, 32, 108, 111, 110, 103>>


(***************************************************************************)
(* PostGenerator: generate_post_for_brief, generate_post_from_analysis     *)
(*                                                                         *)
(* gen.pc: "idle" no call in progress; "model" inside generate_post,       *)
(* about to call the model; "done" the call has returned gen.result (or    *)
(* raised gen.exc).  gen.attempt and gen.gpt_attempt are the loop          *)
(* variables of the orchestrator's and of generate_post's for loops.       *)
(* gen.events are the model calls and sleeps of the running generate_post; *)
(* gen.log has one entry per generate_post invocation that has returned.   *)
(***************************************************************************)
GenIdle ==
    [ pc |-> "idle", fn |-> "", caller |-> "", brief |-> None, topic |-> None,
      analysis |-> None, connection_type |-> None,
      retry_on_length_error |-> TRUE, max_attempts |-> 0,
      attempt |-> 0, strict_length |-> FALSE, prompt |-> None, gpt_attempt |-> 0,
      events |-> <<>>,
      log |-> <<>>, result |-> None, exc |-> None ]

\* the back-reference every result of the running call carries
ResultBase(g) ==
    IF g.fn = "generate_post_for_brief" THEN [brief |-> g.brief]
    ELSE IF g.fn = "generate_connection_post"
    THEN [connection_type |-> g.connection_type]
    ELSE [analysis |-> g.analysis]

BuildPrompt(g, strict_length) ==
    IF g.fn = "generate_post_for_brief"
    THEN build_post_prompt(Val(g.brief), strict_length)
    ELSE IF g.fn = "generate_connection_post"
    THEN build_connection_prompt(g.connection_type, strict_length)
    ELSE build_style_based_prompt(g.topic, format_for_prompt(g.analysis), strict_length)

\* a loop head that builds the retry's prompt like the first one
loop_top_never_strict(g) ==
    [g EXCEPT !.strict_length = FALSE,
              !.prompt = Some(BuildPrompt(g, FALSE))]

\* the head of the orchestrator's loop body (lines 73-74 and 286-291)
loop_top(g) ==
    LET strict_length == (g.attempt > 0)
    IN  [g EXCEPT !.strict_length = strict_length,
                  !.prompt = Some(BuildPrompt(g, strict_length))]

\* the loop body after generate_post has returned ret (post_generator.py
\* lines 84-119 and 300-333), for the call g whose generate_post ran g.events
after_generate_post(g, ret) ==
    LET entry == [ prompt |-> g.prompt, strict_length |-> g.strict_length,
                   events |-> g.events, returned |-> ret ]
        g1    == [g EXCEPT !.log = Append(g.log, entry), !.events = <<>>,
                           !.gpt_attempt = 0]
    IN  IF IsNone(ret) \/ Len(Val(ret)) = 0
        THEN [g1 EXCEPT !.pc = "done",
                 !.result = Some(ResultBase(g) @@
                     [ generated_post |-> None, error |-> Some(F_GENERATE),
                       valid |-> FALSE, attempts |-> g.attempt + 1 ])]
        ELSE
          LET v         == validate_content(Val(ret))
              is_valid  == v[1]
              error_msg == v[2]
          IN  IF is_valid
              THEN [g1 EXCEPT !.pc = "done",
                       !.result = Some(ResultBase(g) @@
                           [ generated_post |-> ret, error |-> None, valid |-> TRUE,
                             prompt_used |-> g.prompt, attempts |-> g.attempt + 1 ])]
              ELSE IF /\ g.retry_on_length_error
                      /\ contains(lower(error_msg), TOO_LONG)
                      /\ g.attempt < g.max_attempts - 1
              THEN loop_top([g1 EXCEPT !.attempt = g.attempt + 1])
              ELSE [g1 EXCEPT !.pc = "done",
                       !.result = Some(ResultBase(g) @@
                           [ generated_post |-> ret, error |-> Some(error_msg),
                             valid |-> FALSE, prompt_used |-> g.prompt,
                             attempts |-> g.attempt + 1 ])]

\* a wait computed from the attempt counted from 0: none, then 2 seconds
retry_sleep_secs_from_zero(attempt) == retry_delay * attempt

\* line 206: time.sleep(self.retry_delay * (attempt + 1)), attempt counted from 0
retry_sleep_secs(attempt) == retry_delay * (attempt + 1)

\* generate_post giving up one model call early
generate_post_step_one_less(g, o) ==
    LET called == [g EXCEPT !.events =
                       Append(g.events,
                           [ev |-> "call", attempt |-> g.gpt_attempt + 1, outcome |-> o])]
    IN  IF o.kind = "text"
        THEN after_generate_post(called, Some(post_process(o.content)))
        ELSE IF g.gpt_attempt < max_retries - 2
        THEN [called EXCEPT
                 !.events = Append(called.events,
                     [ev |-> "sleep", secs |-> retry_sleep_secs(g.gpt_attempt)]),
                 !.gpt_attempt = g.gpt_attempt + 1]
        ELSE after_generate_post(called, None)

\* one iteration of generate_post's retry loop: the model call answers with
\* outcome o: [kind |-> "raise"] (the request raises), [kind |-> "null"]
\* (message.content is None, so .strip() raises inside the try) or
\* [kind |-> "text", content |-> t]
generate_post_step(g, o) ==
    LET called == [g EXCEPT !.events =
                       Append(g.events,
                           [ev |-> "call", attempt |-> g.gpt_attempt + 1, outcome |-> o])]
    IN  IF o.kind = "text"
        THEN after_generate_post(called, Some(post_process(o.content)))
        ELSE IF g.gpt_attempt < max_retries - 1
        THEN [called EXCEPT
                 !.events = Append(called.events,
                     [ev |-> "sleep", secs |-> retry_sleep_secs(g.gpt_attempt)]),
                 !.gpt_attempt = g.gpt_attempt + 1]
        ELSE after_generate_post(called, None)

\* entry of generate_post_for_brief(brief, retry_on_length_error): every call
\* site passes the default retry_on_length_error = True
enter_generate_post_for_brief(caller, brief, retry_on_length_error) ==
    LET g == [GenIdle EXCEPT !.fn = "generate_post_for_brief", !.caller = caller,
                 !.brief = Some(brief),
                 !.retry_on_length_error = retry_on_length_error,
                 !.max_attempts = IF retry_on_length_error THEN 2 ELSE 1]
    IN  loop_top([g EXCEPT !.pc = "model"])

\* entry of generate_post_from_analysis(topic, limit, retry_on_length_error);
\* fetched is what get_user_threads(limit) did: [kind |-> "raise"], or
\* [kind |-> "ret", value |-> None | Some(list of posts)]
enter_generate_post_from_analysis(caller, topic, fetched, retry_on_length_error) ==
    LET g0 == [GenIdle EXCEPT !.fn = "generate_post_from_analysis", !.caller = caller,
                  !.topic = topic,
                  !.retry_on_length_error = retry_on_length_error,
                  !.max_attempts = IF retry_on_length_error THEN 2 ELSE 1]
    IN  IF fetched.kind = "raise"
        THEN [g0 EXCEPT !.pc = "done", !.exc = Some("ConnectionError")]
        ELSE IF IsNone(fetched.value) \/ Len(Val(fetched.value)) = 0
        THEN [g0 EXCEPT !.pc = "done",
                 !.result = Some([ generated_post |-> None, error |-> Some(F_FETCH),
                                   valid |-> FALSE, analysis |-> None ])]
        ELSE
          LET analysis == analyze_posts(Val(fetched.value))
          IN  IF IsNone(analysis)
              THEN [g0 EXCEPT !.pc = "done",
                       !.result = Some([ generated_post |-> None,
                                         error |-> Some(F_ANALYSIS),
                                         valid |-> FALSE, analysis |-> None ])]
              ELSE LET g == [g0 EXCEPT !.analysis = analysis]
                   IN  loop_top([g EXCEPT !.pc = "model"])

\* entry of generate_connection_post(connection_type): the orchestrator's
\* state machine of the other two paths, with no brief and no analysis and
\* the prompt of build_connection_prompt
enter_generate_connection_post(caller, connection_type, retry_on_length_error) ==
    LET g == [GenIdle EXCEPT !.fn = "generate_connection_post", !.caller = caller,
                 !.connection_type = connection_type,
                 !.retry_on_length_error = retry_on_length_error,
                 !.max_attempts = IF retry_on_length_error THEN 2 ELSE 1]
    IN  loop_top([g EXCEPT !.pc = "model"])

(***************************************************************************)
(* ThreadsAPI.post_thread                                                  *)
(*                                                                         *)
(* net is what the network and the Threads API do during the call:         *)
(*   "ok"              /me answers 200 with an id, POST answers 200, an id *)
(*   "uid_raise"       the GET /me request raises (get_user_id has no try) *)
(*   "uid_none"        /me answers non-200 or without an id                *)
(*   "post_raise"      the POST request raises                             *)
(*   "post_http_error" the POST answers with a status other than 200       *)
(*   "post_no_id"      the POST answers 200 without creation_id or id      *)
(* posted is the list of threads the Threads API has published; the call   *)
(* returns its outcome and the new list.                                   *)
(***************************************************************************)
NetOutcomes ==
    {"ok", "uid_raise", "uid_none", "post_raise", "post_http_error", "post_no_id"}

Raise(e) == [kind |-> "raise", exc |-> e]

Return(v) == [kind |-> "ret", value |-> v]

\* a publish call that looks at the length only once the user id is known
post_thread_length_late(text, auto_publish, net, threads) ==
    IF net = "uid_raise"
    THEN [ out |-> Raise("ConnectionError"), posted |-> threads, requests |-> 1 ]
    ELSE IF net = "uid_none"
    THEN [ out |-> Return([ success |-> FALSE,
                            error |-> "Could not get user ID from Threads API",
                            status_code |-> 401 ]),
           posted |-> threads, requests |-> 1 ]
    ELSE IF Len(text) > 500
    THEN [ out |-> Return([ success |-> FALSE,
                            error |-> "Thread text cannot exceed 500 characters",
                            status_code |-> 400 ]),
           posted |-> threads, requests |-> 1 ]
    ELSE IF net = "post_raise"
    THEN [ out |-> Return([ success |-> FALSE, error |-> "Network error: ",
                            status_code |-> 0 ]),
           posted |-> threads, requests |-> 2 ]
    ELSE IF net = "post_http_error"
    THEN [ out |-> Return([ success |-> FALSE, error |-> "Error creating thread: HTTP ",
                            status_code |-> 500 ]),
           posted |-> threads, requests |-> 2 ]
    ELSE IF net = "post_no_id"
    THEN [ out |-> Return([ success |-> FALSE,
                            error |-> "Thread created but no ID returned" ]),
           posted |-> threads, requests |-> 2 ]
    ELSE \* 200 with creation_id: with auto_publish the thread is published
         \* (every caller of the orchestrator passes auto_publish = True)
         LET creation_id == Len(threads) + 1
         IN  [ out |-> Return([ success |-> TRUE, id |-> creation_id,
                                thread_id |-> creation_id,
                                creation_id |-> creation_id ]),
               posted |-> Append(threads, [id |-> creation_id, text |-> text]),
               requests |-> 2 ]

post_thread(text, auto_publish, net, threads) ==
    IF Len(text) > 500
    THEN [ out |-> Return([ success |-> FALSE,
                            error |-> "Thread text cannot exceed 500 characters",
                            status_code |-> 400 ]),
           posted |-> threads, requests |-> 0 ]
    ELSE IF net = "uid_raise"
    THEN [ out |-> Raise("ConnectionError"), posted |-> threads, requests |-> 1 ]
    ELSE IF net = "uid_none"
    THEN [ out |-> Return([ success |-> FALSE,
                            error |-> "Could not get user ID from Threads API",
                            status_code |-> 401 ]),
           posted |-> threads, requests |-> 1 ]
    ELSE IF net = "post_raise"
    THEN [ out |-> Return([ success |-> FALSE, error |-> "Network error: ",
                            status_code |-> 0 ]),
           posted |-> threads, requests |-> 2 ]
    ELSE IF net = "post_http_error"
    THEN [ out |-> Return([ success |-> FALSE, error |-> "Error creating thread: HTTP ",
                            status_code |-> 500 ]),
           posted |-> threads, requests |-> 2 ]
    ELSE IF net = "post_no_id"
    THEN [ out |-> Return([ success |-> FALSE,
                            error |-> "Thread created but no ID returned" ]),
           posted |-> threads, requests |-> 2 ]
    ELSE \* 200 with creation_id: with auto_publish the thread is published
         \* (every caller of the orchestrator passes auto_publish = True)
         LET creation_id == Len(threads) + 1
         IN  [ out |-> Return([ success |-> TRUE, id |-> creation_id,
                                thread_id |-> creation_id,
                                creation_id |-> creation_id ]),
               posted |-> Append(threads, [id |-> creation_id, text |-> text]),
               requests |-> 2 ]

(***************************************************************************)
(* PostGenerator.post_approved_post                                        *)
(***************************************************************************)
\* result.get(k) is truthy
TruthyValid(result) == "valid" \in DOMAIN result /\ result.valid = TRUE

TruthyText(result) ==
    /\ "generated_post" \in DOMAIN result
    /\ ~IsNone(result.generated_post)
    /\ Len(Val(result.generated_post)) > 0

\* "if post_result:" : a dict is truthy unless it has no key
TruthyDict(d) == DOMAIN d # {}

\* post_result.get('id') or post_result.get('thread_id')
IdOf(post_result) ==
    IF "id" \in DOMAIN post_result THEN Some(post_result.id)
    ELSE IF "thread_id" \in DOMAIN post_result THEN Some(post_result.thread_id)
    ELSE None

ThreadUrl(thread_id) ==
    IF IsNone(thread_id) THEN None
    ELSE Some(<<"https://www.threads.net/t/", Val(thread_id), "/">>)

post_approved_post(result, net, threads) ==
    IF ~TruthyValid(result) \/ ~TruthyText(result)
    THEN [ out |-> Return([ success |-> FALSE,
                            error |-> "Post is not valid or missing",
                            result |-> result ]),
           posted |-> threads ]
    ELSE IF "brief" \notin DOMAIN result
    THEN \* brief = result["brief"]
         [ out |-> Raise("KeyError"), posted |-> threads ]
    ELSE IF IsNone(result.brief)
    THEN \* brief.get('topic', 'Unknown') on None
         [ out |-> Raise("AttributeError"), posted |-> threads ]
    ELSE
      LET pt == post_thread(Val(result.generated_post), TRUE, net, threads)
      IN  IF pt.out.kind = "raise"
          THEN [ out |-> pt.out, posted |-> pt.posted ]
          ELSE
            LET post_result == pt.out.value
                thread_id   == IdOf(post_result)
            IN  IF TruthyDict(post_result)
                THEN [ out |-> Return([ success |-> TRUE, thread_id |-> thread_id,
                                        thread_url |-> ThreadUrl(thread_id),
                                        result |-> result ]),
                       posted |-> pt.posted ]
                ELSE [ out |-> Return([ success |-> FALSE,
                                        error |-> "Failed to post to Threads",
                                        result |-> result ]),
                       posted |-> pt.posted ]

(***************************************************************************)
(* PostStorage: the pending_posts table                                    *)
(***************************************************************************)
NOW == "utcnow"

create_post(rows, post_text, mode, metadata) ==
    Append(rows, [ id |-> Len(rows) + 1, post_text |-> post_text, mode |-> mode,
                   metadata |-> metadata, status |-> "pending", created_at |-> NOW,
                   approved_at |-> None, published_at |-> None,
                   thread_id |-> None, thread_url |-> None ])

\* None when no row has the id
get_post(rows, post_id) ==
    IF post_id \in 1..Len(rows) THEN Some(rows[post_id]) ELSE None

\* the table after update_status(post_id, status, thread_id, thread_url)
update_status(rows, post_id, status, thread_id, thread_url) ==
    IF post_id \notin 1..Len(rows) THEN rows
    ELSE IF status = "approved"
    THEN [rows EXCEPT ![post_id].status = status,
                      ![post_id].approved_at = Some(NOW)]
    ELSE IF status = "published"
    THEN [rows EXCEPT ![post_id].status = status,
                      ![post_id].published_at = Some(NOW),
                      ![post_id].thread_id =
                          IF ~IsNone(thread_id) THEN thread_id ELSE @,
                      ![post_id].thread_url =
                          IF ~IsNone(thread_url) THEN thread_url ELSE @]
    ELSE [rows EXCEPT ![post_id].status = status]

\* post.get("metadata", {}).get(key)
MetaGet(post, key) ==
    IF key \in DOMAIN post.metadata THEN post.metadata[key] ELSE None

(***************************************************************************)
(* What the environment can answer                                         *)
(***************************************************************************)
\* "Which task would you automate first?"
T_VALID == <<87, 104, 105, 99, 104, 32, 116, 97, 115, 107, 32, 119, 111, 117, 108, 100, 32, 121, 111, 117, 32, 97, 117, 116, 111, 109, 97, 116, 101, 32, 102, 105, 114, 115, 116, 63>>

\* "\"Small teams win by focus.\"" : wrapped in a quote pair
T_QUOTED == <<34, 83, 109, 97, 108, 108, 32, 116, 101, 97, 109, 115, 32, 119, 105, 110, 32, 98, 121, 32, 102, 111, 99, 117, 115, 46, 34>>

\* U+1F680 "Ship it today, " U+1F525 " not tomorrow. Agree?" U+2605
T_EMOJI == <<128640>> \o <<83, 104, 105, 112, 32, 105, 116, 32, 116, 111, 100, 97, 121, 44, 32>> \o <<128293>> \o <<32, 110, 111, 116, 32, 116, 111, 109, 111, 114, 114, 111, 119, 46, 32, 65, 103, 114, 101, 101, 63>> \o <<9733>>

\* "Hi there"
T_SHORT == <<72, 105, 32, 116, 104, 101, 114, 101>>

\* "Here's a quick thought"
T_HERES == <<72, 101, 114, 101, 39, 115, 32, 97, 32, 113, 117, 105, 99, 107, 32, 116, 104, 111, 117, 103, 104, 116>>

T_BLANK == <<SP, SP, NL>>

\* 600 characters, one sentence end at character 420
T_LONG_SENTENCE == Rep(97, 419) \o <<DOT>> \o Rep(98, 180)

\* 520 characters without any break
T_LONG_HARD == Rep(97, 520)

\* 400 characters, a 99-character question line, a 50-character last line
T_LONG_CTA == Rep(97, 400) \o <<NL>> \o Rep(98, 98) \o <<QMARK>> \o <<NL>> \o Rep(99, 50)

ModelTexts ==
    { T_VALID, T_QUOTED, T_EMOJI, T_SHORT, T_HERES, T_BLANK,
      T_LONG_SENTENCE, T_LONG_HARD, T_LONG_CTA }

ModelOutcomes ==
    { [kind |-> "raise"], [kind |-> "null"] } \cup
    { [kind |-> "text", content |-> t] : t \in ModelTexts }

\* "AI tools for SMBs"
T_TOPIC == <<65, 73, 32, 116, 111, 111, 108, 115, 32, 102, 111, 114, 32, 83, 77, 66, 115>>

\* "founders"
T_FOUNDERS == <<102, 111, 117, 110, 100, 101, 114, 115>>

Briefs ==
    \* pillar "Education"; topic "Hiring" without pillar
    { [topic |-> T_TOPIC, pillar |-> <<69, 100, 117, 99, 97, 116, 105, 111, 110>>, post_type |-> <<"Text">>],
      [topic |-> <<72, 105, 114, 105, 110, 103>>, pillar |-> <<>>, post_type |-> <<>>] }

Topics == { None, Some(T_TOPIC) }

\* what get_user_threads(limit) can do
FetchOutcomes ==
    { [kind |-> "raise"],
      [kind |-> "ret", value |-> None],
      [kind |-> "ret", value |-> Some(<<>>)],
      [kind |-> "ret", value |-> Some(<< [id |-> "1", text |-> <<>>] >>)],
      [kind |-> "ret", value |-> Some(<< [id |-> "1", text |-> T_VALID],
                                         [id |-> "2", text |-> <<>>],
                                         [id |-> "3", text |-> T_HERES] >>)] }

(***************************************************************************)
(* Actions: direct calls of the orchestrator                               *)
(***************************************************************************)
generate_post_for_brief(brief) ==
    /\ gen.pc = "idle"
    /\ gen' = enter_generate_post_for_brief("call", brief, TRUE)
    /\ UNCHANGED <<batch, posts, last_response, posted>>

generate_post_from_analysis(topic, fetched) ==
    /\ gen.pc = "idle"
    /\ gen' = enter_generate_post_from_analysis("call", topic, fetched, TRUE)
    /\ UNCHANGED <<batch, posts, last_response, posted>>

generate_post(o) ==
    /\ gen.pc = "model"
    /\ gen' = generate_post_step(gen, o)
    /\ UNCHANGED <<batch, posts, last_response, posted>>

\* the caller takes the result; the generator is free for the next call
gen_return ==
    /\ gen.pc = "done"
    /\ gen.caller = "call"
    /\ gen' = GenIdle
    /\ UNCHANGED <<batch, posts, last_response, posted>>

(***************************************************************************)
(* HTTP handlers of api/index.py.  A handler runs to its response before   *)
(* the next request is served; the two generation handlers span several    *)
(* steps (one per model call) and hold gen meanwhile.                      *)
(***************************************************************************)
MaxDrafts == 2

PostIds == 1..MaxDrafts

Response(handler, post_id, status_code, detail, body) ==
    Some([ handler |-> handler, post_id |-> post_id, status_code |-> status_code,
           detail |-> detail, body |-> body ])

Idle == gen.pc = "idle" /\ batch.pc = "idle"

\* the brief the Notion database holds first
ApiBrief == CHOOSE b \in Briefs : b.pillar # <<>>

\* what fetch_briefs can do
BriefFetchOutcomes ==
    { Raise("APIResponseError"), Return(<<>>) } \cup
    { Return(<<ApiBrief>>) }

\* what the model answers while a generate request is being served
ApiModelOutcomes ==
    { [kind |-> "text", content |-> T_VALID],
      [kind |-> "text", content |-> T_SHORT] }

generate_briefs_begin(fetched) ==
    /\ Idle
    /\ Len(posts) < MaxDrafts
    /\ IF fetched.kind = "raise"
       THEN /\ last_response' =
                   Response("generate_briefs", 0, 500, Some(<<fetched.exc>>), None)
            /\ UNCHANGED gen
       ELSE IF Len(fetched.value) = 0
       THEN /\ last_response' =
                   Response("generate_briefs", 0, 404, Some(<<"No briefs found">>), None)
            /\ UNCHANGED gen
       ELSE /\ gen' = enter_generate_post_for_brief("generate_briefs",
                                                    fetched.value[1], TRUE)
            /\ UNCHANGED last_response
    /\ UNCHANGED <<batch, posts, posted>>

\* a handler that stores whatever text the generator returned, valid or not
generate_end_unchecked(handler, mode, metadata) ==
    /\ gen.pc = "done"
    /\ gen.caller = handler
    /\ IF ~IsNone(gen.exc)
       THEN /\ last_response' = Response(handler, 0, 500, Some(<<Val(gen.exc)>>), None)
            /\ UNCHANGED posts
       ELSE IF IsNone(Val(gen.result).generated_post)
       THEN /\ last_response' = Response(handler, 0, 400, Val(gen.result).error, None)
            /\ UNCHANGED posts
       ELSE /\ posts' = create_post(posts, Val(Val(gen.result).generated_post),
                                    mode, metadata)
            /\ last_response' = Response(handler, Len(posts) + 1, 200, None,
                                         Some(posts'[Len(posts) + 1]))
    /\ gen' = GenIdle
    /\ UNCHANGED <<batch, posted>>

\* the handler after generator.generate_... has returned (or raised)
generate_end(handler, mode, metadata) ==
    /\ gen.pc = "done"
    /\ gen.caller = handler
    /\ IF ~IsNone(gen.exc)
       THEN /\ last_response' = Response(handler, 0, 500, Some(<<Val(gen.exc)>>), None)
            /\ UNCHANGED posts
       ELSE IF ~Val(gen.result).valid
       THEN /\ last_response' = Response(handler, 0, 400, Val(gen.result).error, None)
            /\ UNCHANGED posts
       ELSE /\ posts' = create_post(posts, Val(Val(gen.result).generated_post),
                                    mode, metadata)
            /\ last_response' = Response(handler, Len(posts) + 1, 200, None,
                                         Some(posts'[Len(posts) + 1]))
    /\ gen' = GenIdle
    /\ UNCHANGED <<batch, posted>>

generate_briefs_end ==
    generate_end("generate_briefs", "briefs",
        IF IsNone(gen.result) THEN <<>>
        ELSE [ brief |-> Val(gen.result).brief, attempts |-> Val(gen.result).attempts ])

generate_analysis_begin(topic, fetched) ==
    /\ Idle
    /\ Len(posts) < MaxDrafts
    /\ gen' = enter_generate_post_from_analysis("generate_analysis", topic, fetched, TRUE)
    /\ UNCHANGED <<batch, posts, last_response, posted>>

generate_analysis_end ==
    generate_end("generate_analysis", "analysis",
        IF IsNone(gen.result) THEN <<>>
        ELSE [ analysis |-> Val(gen.result).analysis, topic |-> gen.topic,
               attempts |-> IF "attempts" \in DOMAIN Val(gen.result)
                            THEN Val(gen.result).attempts ELSE 1 ])

\* GenerateConnectionRequest.connection_type
ConnectionTypes == { None, Some(T_FOUNDERS) }

generate_connection_begin(connection_type) ==
    /\ Idle
    /\ Len(posts) < MaxDrafts
    /\ gen' = enter_generate_connection_post("generate_connection", connection_type, TRUE)
    /\ UNCHANGED <<batch, posts, last_response, posted>>

\* a handler that files the draft under the briefs path
generate_connection_end_as_briefs ==
    generate_end("generate_connection", "briefs",
        [ connection_type |-> gen.connection_type,
          attempts |-> IF ~IsNone(gen.result) /\ "attempts" \in DOMAIN Val(gen.result)
                       THEN Val(gen.result).attempts ELSE 1 ])

generate_connection_end ==
    generate_end("generate_connection", "connection",
        [ connection_type |-> gen.connection_type,
          attempts |-> IF ~IsNone(gen.result) /\ "attempts" \in DOMAIN Val(gen.result)
                       THEN Val(gen.result).attempts ELSE 1 ])

\* an approve handler that only refuses published drafts
approve_post_rejected_too(post_id) ==
    /\ Idle
    /\ LET post == get_post(posts, post_id)
       IN  IF IsNone(post)
           THEN /\ last_response' =
                       Response("approve_post", post_id, 404, Some(<<"Post not found">>), None)
                /\ UNCHANGED posts
           ELSE IF Val(post).status = "published"
           THEN /\ last_response' = Response("approve_post", post_id, 400,
                                             Some(<<"Post is already published">>), None)
                /\ UNCHANGED posts
           ELSE /\ posts' = update_status(posts, post_id, "approved", None, None)
                /\ last_response' = Response("approve_post", post_id, 200, None,
                                             Some([success |-> TRUE, status |-> "approved"]))
    /\ UNCHANGED <<gen, batch, posted>>

approve_post(post_id) ==
    /\ Idle
    /\ LET post == get_post(posts, post_id)
       IN  IF IsNone(post)
           THEN /\ last_response' =
                       Response("approve_post", post_id, 404, Some(<<"Post not found">>), None)
                /\ UNCHANGED posts
           ELSE IF Val(post).status = "published"
           THEN /\ last_response' = Response("approve_post", post_id, 400,
                                             Some(<<"Post is already published">>), None)
                /\ UNCHANGED posts
           ELSE IF Val(post).status = "rejected"
           THEN /\ last_response' = Response("approve_post", post_id, 400,
                                             Some(<<"Cannot approve a rejected post">>), None)
                /\ UNCHANGED posts
           ELSE /\ posts' = update_status(posts, post_id, "approved", None, None)
                /\ last_response' = Response("approve_post", post_id, 200, None,
                                             Some([success |-> TRUE, status |-> "approved"]))
    /\ UNCHANGED <<gen, batch, posted>>

reject_post(post_id) ==
    /\ Idle
    /\ LET post == get_post(posts, post_id)
       IN  IF IsNone(post)
           THEN /\ last_response' =
                       Response("reject_post", post_id, 404, Some(<<"Post not found">>), None)
                /\ UNCHANGED posts
           ELSE IF Val(post).status # "pending"
           THEN /\ last_response' = Response("reject_post", post_id, 400,
                                             Some(<<"Post is already ", Val(post).status>>), None)
                /\ UNCHANGED posts
           ELSE /\ posts' = update_status(posts, post_id, "rejected", None, None)
                /\ last_response' = Response("reject_post", post_id, 200, None,
                                             Some([success |-> TRUE, status |-> "rejected"]))
    /\ UNCHANGED <<gen, batch, posted>>

\* PostStorage.update_post_text(post_id, post_text), which index.py calls: the
\* table with the row's text replaced, as update_status replaces the status
storage_update_post_text(rows, post_id, post_text) ==
    IF post_id \notin 1..Len(rows) THEN rows
    ELSE [rows EXCEPT ![post_id].post_text = post_text]

\* the texts a text-update request carries (UpdatePostTextRequest.post_text)
EditTexts == { T_QUOTED }

\* a text-update handler without the test for published drafts
update_post_text_unguarded(post_id, post_text) ==
    /\ Idle
    /\ LET post == get_post(posts, post_id)
       IN  IF IsNone(post)
           THEN /\ last_response' = Response("update_post_text", post_id, 404,
                                             Some(<<"Post not found">>), None)
                /\ UNCHANGED posts
           ELSE /\ posts' = storage_update_post_text(posts, post_id, post_text)
                /\ last_response' = Response("update_post_text", post_id, 200, None,
                                             Some(posts'[post_id]))
    /\ UNCHANGED <<gen, batch, posted>>

update_post_text(post_id, post_text) ==
    /\ Idle
    /\ LET post == get_post(posts, post_id)
       IN  IF IsNone(post)
           THEN /\ last_response' = Response("update_post_text", post_id, 404,
                                             Some(<<"Post not found">>), None)
                /\ UNCHANGED posts
           ELSE IF Val(post).status = "published"
           THEN /\ last_response' = Response("update_post_text", post_id, 400,
                                             Some(<<"Cannot edit a published post">>), None)
                /\ UNCHANGED posts
           ELSE /\ posts' = storage_update_post_text(posts, post_id, post_text)
                /\ last_response' = Response("update_post_text", post_id, 200, None,
                                             Some(posts'[post_id]))
    /\ UNCHANGED <<gen, batch, posted>>

\* the result dict both publish handlers build from the stored row
(***************************************************************************)
(* EmailNotifier.  mail is what happens to the confirmation mail:          *)
(*   "no_recipient"  NOTIFICATION_EMAIL is unset, nothing is sent          *)
(*   "sent"          the SMTP server takes the message                     *)
(*   "smtp_error"    connecting, logging in or sending raises              *)
(* A response's printed field is what the request wrote to stdout.         *)
(***************************************************************************)
MailOutcomes == { "no_recipient", "sent", "smtp_error" }

\* a sender that lets the SMTP exception out
_send_email_raising(mail) ==
    IF mail = "sent" THEN [ out |-> Return(TRUE), printed |-> <<>> ]
    ELSE [ out |-> Raise("SMTPException"), printed |-> <<>> ]

\* what send_notification and send_confirmation return: True, or False after
\* the except branch has printed the error
_send_email(mail) ==
    IF mail = "sent" THEN [ out |-> Return(TRUE), printed |-> <<>> ]
    ELSE [ out |-> Return(FALSE), printed |-> <<"Error sending email: ">> ]

PublishResult(post) ==
    [ valid |-> TRUE, generated_post |-> Some(post.post_text),
      brief |-> MetaGet(post, "brief"), analysis |-> MetaGet(post, "analysis"),
      type |-> Some(post.mode) ]

\* publish_post while the network behaves as net
publish_post_with(post_id, net) ==
    /\ Idle
    /\ LET post == get_post(posts, post_id)
       IN  IF IsNone(post)
           THEN /\ last_response' =
                       Response("publish_post", post_id, 404, Some(<<"Post not found">>), None)
                /\ UNCHANGED <<posts, posted>>
           ELSE IF Val(post).status \notin {"approved", "pending"}
           THEN /\ last_response' = Response("publish_post", post_id, 400,
                       Some(<<"Post must be approved or pending to publish. Current status: ",
                              Val(post).status>>), None)
                /\ UNCHANGED <<posts, posted>>
           ELSE
             LET pa == post_approved_post(PublishResult(Val(post)), net, posted)
             IN  /\ posted' = pa.posted
                 /\ IF pa.out.kind = "raise"
                    THEN /\ last_response' = Response("publish_post", post_id, 500,
                                 Some(<<"Failed to post to Threads: ", pa.out.exc>>), None)
                         /\ UNCHANGED posts
                    ELSE IF ~pa.out.value.success
                    THEN /\ last_response' = Response("publish_post", post_id, 500,
                                 Some(<<"Failed to post to Threads: ", pa.out.value.error>>),
                                 None)
                         /\ UNCHANGED posts
                    ELSE \E mail \in MailOutcomes :
                         \* lines 486-496: send_confirmation inside try/except
                         LET conf == _send_email(mail)
                         IN  /\ posts' = update_status(posts, post_id, "published",
                                         pa.out.value.thread_id, pa.out.value.thread_url)
                             /\ last_response' = Response("publish_post", post_id, 200, None,
                                 Some([ success |-> TRUE,
                                        thread_id |-> pa.out.value.thread_id,
                                        thread_url |-> pa.out.value.thread_url,
                                        printed |->
                                            IF mail = "no_recipient" THEN <<>>
                                            ELSE IF conf.out.kind = "raise"
                                            THEN <<"Warning: Failed to send confirmation email: ">>
                                            ELSE conf.printed ]))
    /\ UNCHANGED <<gen, batch>>

publish_post(post_id) == \E net \in NetOutcomes : publish_post_with(post_id, net)

(***************************************************************************)
(* HTTP handlers of api/approve.py (the same table, stricter guards)       *)
(***************************************************************************)
approve_py_approve_post(post_id) ==
    /\ Idle
    /\ LET post == get_post(posts, post_id)
       IN  IF IsNone(post)
           THEN /\ last_response' = Response("approve_py_approve_post", post_id, 404,
                                             Some(<<"Post not found">>), None)
                /\ UNCHANGED posts
           ELSE IF Val(post).status # "pending"
           THEN /\ last_response' = Response("approve_py_approve_post", post_id, 400,
                                             Some(<<"Post is already ", Val(post).status>>), None)
                /\ UNCHANGED posts
           ELSE /\ posts' = update_status(posts, post_id, "approved", None, None)
                /\ last_response' = Response("approve_py_approve_post", post_id, 200, None,
                                             Some([success |-> TRUE, status |-> "approved"]))
    /\ UNCHANGED <<gen, batch, posted>>

approve_py_reject_post(post_id) ==
    /\ Idle
    /\ LET post == get_post(posts, post_id)
       IN  IF IsNone(post)
           THEN /\ last_response' = Response("approve_py_reject_post", post_id, 404,
                                             Some(<<"Post not found">>), None)
                /\ UNCHANGED posts
           ELSE IF Val(post).status # "pending"
           THEN /\ last_response' = Response("approve_py_reject_post", post_id, 400,
                                             Some(<<"Post is already ", Val(post).status>>), None)
                /\ UNCHANGED posts
           ELSE /\ posts' = update_status(posts, post_id, "rejected", None, None)
                /\ last_response' = Response("approve_py_reject_post", post_id, 200, None,
                                             Some([success |-> TRUE, status |-> "rejected"]))
    /\ UNCHANGED <<gen, batch, posted>>

approve_py_publish_post_with(post_id, net) ==
    /\ Idle
    /\ LET post == get_post(posts, post_id)
       IN  IF IsNone(post)
           THEN /\ last_response' = Response("approve_py_publish_post", post_id, 404,
                                             Some(<<"Post not found">>), None)
                /\ UNCHANGED <<posts, posted>>
           ELSE IF Val(post).status # "approved"
           THEN /\ last_response' = Response("approve_py_publish_post", post_id, 400,
                       Some(<<"Post must be approved to publish. Current status: ",
                              Val(post).status>>), None)
                /\ UNCHANGED <<posts, posted>>
           ELSE
             LET pa == post_approved_post(PublishResult(Val(post)), net, posted)
             IN  /\ posted' = pa.posted
                 /\ IF pa.out.kind = "raise"
                    THEN /\ last_response' = Response("approve_py_publish_post", post_id,
                                 500, Some(<<pa.out.exc>>), None)
                         /\ UNCHANGED posts
                    ELSE IF ~pa.out.value.success
                    THEN /\ last_response' = Response("approve_py_publish_post", post_id,
                                 500, Some(<<pa.out.value.error>>), None)
                         /\ UNCHANGED posts
                    ELSE \E mail \in MailOutcomes :
                         \* lines 139-145: send_confirmation outside any try of its own
                         LET conf == _send_email(mail)
                         IN  /\ posts' = update_status(posts, post_id, "published",
                                         pa.out.value.thread_id, pa.out.value.thread_url)
                             /\ IF mail # "no_recipient" /\ conf.out.kind = "raise"
                                THEN last_response' = Response("approve_py_publish_post",
                                         post_id, 500, Some(<<conf.out.exc>>), None)
                                ELSE last_response' = Response("approve_py_publish_post",
                                         post_id, 200, None,
                                         Some([ success |-> TRUE,
                                                thread_id |-> pa.out.value.thread_id,
                                                thread_url |-> pa.out.value.thread_url,
                                                printed |->
                                                    IF mail = "no_recipient" THEN <<>>
                                                    ELSE conf.printed ]))
    /\ UNCHANGED <<gen, batch>>

approve_py_publish_post(post_id) ==
    \E net \in NetOutcomes : approve_py_publish_post_with(post_id, net)

(***************************************************************************)
(* PostGenerator.post_multiple_approved                                    *)
(*                                                                         *)
(* batch.pc: "idle"; "post" about to call post_approved_post for item      *)
(* batch.i; "sleep" about to sleep before the next item; "done" the call   *)
(* has returned batch.posting_results or raised batch.exc.  batch.events   *)
(* lists the publish calls and the sleeps in the order they happened.      *)
(***************************************************************************)
BatchIdle ==
    [ pc |-> "idle", delay_seconds |-> 0, valid_posts |-> <<>>, i |-> 0,
      posting_results |-> <<>>, events |-> <<>>, exc |-> None ]

MaxBatch == 3

\* the batches of a run publish at most MaxThreads threads in total
MaxThreads == 3

DEFAULT_DELAY == 60

DelayChoices == {DEFAULT_DELAY, 5}

\* generation results as the orchestrator returns them
ResultFor(g0, content) ==
    Val(generate_post_step(g0, [kind |-> "text", content |-> content]).result)

BatchBrief == ApiBrief

BatchItems ==
    { ResultFor(enter_generate_post_for_brief("call", BatchBrief, TRUE), T_VALID),
      ResultFor(enter_generate_post_for_brief("call", BatchBrief, TRUE), T_SHORT),
      ResultFor(enter_generate_post_from_analysis("call", None,
                    Return(Some(<< [id |-> "1", text |-> T_HERES] >>)), TRUE), T_QUOTED) }

SeqsUpTo(S, n) == UNION { [1..k -> S] : k \in 0..n }

\* a batch that sleeps the delay before its first item as well
post_multiple_approved_sleep_first(results, delay_seconds) ==
    /\ Idle
    /\ Len(posted) + Len(SelectSeq(results, TruthyValid)) <= MaxThreads
    /\ LET valid_posts == SelectSeq(results, TruthyValid)
       IN  batch' = [BatchIdle EXCEPT
                        !.pc = IF Len(valid_posts) = 0 THEN "done" ELSE "post",
                        !.delay_seconds = delay_seconds,
                        !.valid_posts = valid_posts,
                        !.events = IF Len(valid_posts) = 0 THEN <<>>
                                   ELSE <<[ev |-> "sleep", secs |-> delay_seconds]>>,
                        !.i = 1]
    /\ UNCHANGED <<gen, posts, last_response, posted>>

post_multiple_approved(results, delay_seconds) ==
    /\ Idle
    /\ Len(posted) + Len(SelectSeq(results, TruthyValid)) <= MaxThreads
    /\ LET valid_posts == SelectSeq(results, TruthyValid)
       IN  batch' = [BatchIdle EXCEPT
                        !.pc = IF Len(valid_posts) = 0 THEN "done" ELSE "post",
                        !.delay_seconds = delay_seconds,
                        !.valid_posts = valid_posts,
                        !.i = 1]
    /\ UNCHANGED <<gen, posts, last_response, posted>>

\* the loop body up to the test before the sleep, while the network behaves as net
batch_post_with(net) ==
    /\ batch.pc = "post"
    /\ LET pa  == post_approved_post(batch.valid_posts[batch.i], net, posted)
           ev  == Append(batch.events, [ev |-> "publish", item |-> batch.i])
       IN  /\ posted' = pa.posted
           /\ IF pa.out.kind = "raise"
              THEN batch' = [batch EXCEPT !.pc = "done", !.events = ev,
                                          !.exc = Some(pa.out.exc)]
              ELSE batch' = [batch EXCEPT
                                !.events = ev,
                                !.posting_results = Append(@, pa.out.value),
                                !.pc = IF batch.i < Len(batch.valid_posts)
                                       THEN "sleep" ELSE "done"]
    /\ UNCHANGED <<gen, posts, last_response>>

batch_post == \E net \in NetOutcomes : batch_post_with(net)

\* time.sleep(delay_seconds), then the next iteration
batch_sleep ==
    /\ batch.pc = "sleep"
    /\ batch' = [batch EXCEPT
                    !.events = Append(@, [ev |-> "sleep", secs |-> batch.delay_seconds]),
                    !.i = batch.i + 1,
                    !.pc = "post"]
    /\ UNCHANGED <<gen, posts, last_response, posted>>

\* the caller takes the list (or the exception)
batch_return ==
    /\ batch.pc = "done"
    /\ batch' = BatchIdle
    /\ UNCHANGED <<gen, posts, last_response, posted>>

(***************************************************************************)
(* Direct calls of GPTClient's text operations and of ThreadsAPI.post_thread. *)
(* gen.fn names the method, gen.log holds its arguments and gen.result     *)
(* what it returned.                                                       *)
(***************************************************************************)
ROCKET == 128640

\* "a", rocket, "b" with and without spaces around the rocket, and a text
\* whose two spaces are its own
EmojiInputs ==
    { <<97, SP, ROCKET, SP, 98>>, <<97, ROCKET, 98>>, <<97, SP, ROCKET, 98>>,
      <<97, ROCKET, ROCKET, 98>>, <<ROCKET, SP, 97, 98>>, <<97, SP, SP, 98>>,
      <<97, SP, 98, SP, ROCKET>>, <<ROCKET>> }

\* 600 characters with the sentence terminator c as character p
TermAt(c, p) == Rep(97, p - 1) \o <<c>> \o Rep(98, 600 - p)

\* 600 characters with terminator c1 as character p1 and c2 as character p2 > p1
TermsAt(c1, p1, c2, p2) ==
    Rep(97, p1 - 1) \o <<c1>> \o Rep(97, p2 - p1 - 1) \o <<c2>> \o Rep(98, 600 - p2)

LongInputs ==
    { TermAt(c, p) : c \in {QMARK, EXCL, DOT},
                     p \in {300, 350, 351, 352, 420, 500, 501} } \cup
    { TermsAt(QMARK, 360, DOT, 450), TermsAt(DOT, 360, QMARK, 450),
      TermsAt(EXCL, 400, DOT, 480), TermsAt(SP, 450, SP, 520),
      TermsAt(NL, 380, SP, 400), TermsAt(DOT, 200, SP, 410) } \cup
    { T_LONG_SENTENCE, T_LONG_HARD, T_LONG_CTA }

TextInputs ==
    { pre \o Rep(97, n) : pre \in { <<>>, HERES, <<ROCKET>>, <<SP>> },
                          n \in { 0, 1, 9, 10, 43, 44, 494, 495, 500, 501 } } \cup
    ModelTexts \cup EmojiInputs

\* the symbols the prompts allow: bullet, arrows, squares and stars
LIST_MARKERS == <<8226, 8594, 10148, 9656, 9642, 9733, 10023, 10022>>

\* a valid text behind each allowed symbol, and one between two words
SymbolInputs ==
    { <<LIST_MARKERS[i], SP>> \o T_VALID : i \in 1..Len(LIST_MARKERS) } \cup
    { <<97, SP, LIST_MARKERS[i], SP, 98>> : i \in 1..Len(LIST_MARKERS) }

PublishInputs == { Rep(97, n) : n \in {1, 500, 501, 600} }

DirectCall(fn, args, returned) ==
    [GenIdle EXCEPT !.pc = "done", !.fn = fn, !.caller = "call",
                    !.log = <<args>>, !.result = Some(returned)]

call_validate_content(text) ==
    /\ gen.pc = "idle"
    /\ gen' = DirectCall("validate_content", [text |-> text], validate_content(text))
    /\ UNCHANGED <<batch, posts, last_response, posted>>

call_remove_emojis(text) ==
    /\ gen.pc = "idle"
    /\ gen' = DirectCall("remove_emojis", [text |-> text], remove_emojis(text))
    /\ UNCHANGED <<batch, posts, last_response, posted>>

call_truncate_text_smart(text, max_chars) ==
    /\ gen.pc = "idle"
    /\ gen' = DirectCall("_truncate_text_smart", [text |-> text, max_chars |-> max_chars],
                         _truncate_text_smart(text, max_chars))
    /\ UNCHANGED <<batch, posts, last_response, posted>>

call_format_for_prompt(analysis) ==
    /\ gen.pc = "idle"
    /\ gen' = DirectCall("format_for_prompt", [analysis |-> analysis],
                         format_for_prompt(analysis))
    /\ UNCHANGED <<batch, posts, last_response, posted>>

call_truncate_to_limit(text, max_chars) ==
    /\ gen.pc = "idle"
    /\ gen' = DirectCall("truncate_to_limit", [text |-> text, max_chars |-> max_chars],
                         truncate_to_limit(text, max_chars))
    /\ UNCHANGED <<batch, posts, last_response, posted>>

call_build_post_prompt(brief, strict_length) ==
    /\ gen.pc = "idle"
    /\ gen' = DirectCall("build_post_prompt",
                         [brief |-> brief, strict_length |-> strict_length],
                         post_prompt_text(build_post_prompt(brief, strict_length)))
    /\ UNCHANGED <<batch, posts, last_response, posted>>

call_build_connection_prompt(connection_type, strict_length) ==
    /\ gen.pc = "idle"
    /\ gen' = DirectCall("build_connection_prompt",
                         [connection_type |-> connection_type,
                          strict_length |-> strict_length],
                         connection_prompt_text(
                             build_connection_prompt(connection_type, strict_length)))
    /\ UNCHANGED <<batch, posts, last_response, posted>>

\* post_thread(text) while the network behaves as net
call_post_thread(text, net) ==
    /\ gen.pc = "idle"
    /\ Len(posted) < MaxThreads
    /\ LET pt == post_thread(text, TRUE, net, posted)
       IN  /\ gen' = DirectCall("post_thread", [text |-> text, net |-> net],
                                [out |-> pt.out, requests |-> pt.requests])
           /\ posted' = pt.posted
    /\ UNCHANGED <<batch, posts, last_response>>

(***************************************************************************)
(* ThreadsAPI.get_user_threads(limit): one step per page request.          *)
(* While the call runs gen.events is all_threads and gen.attempt the       *)
(* number of page requests made; the n-th thread the API hands out has     *)
(* id n.                                                                   *)
(***************************************************************************)
MaxLimit == 3

MaxPage == 2

\* what a page request can do: a 200 answer with n threads and with or without
\* an "after" cursor, another status code, or an exception of requests.get
PageResponses ==
    { [kind |-> "ok", n |-> n, after |-> a] : n \in 0..MaxPage, a \in BOOLEAN } \cup
    { [kind |-> "http_error"], [kind |-> "raise"] }

\* the end of the call behind the loop: trim, return
trim_and_return(limit, all_threads) ==
    Return(Some(IF Len(all_threads) > limit THEN SubSeq(all_threads, 1, limit)
                ELSE all_threads))

\* a loop body that returns what it has without the trim
loop_body_untrimmed(limit, all_threads, page) ==
    IF page.kind = "raise"
    THEN [ again |-> FALSE, all_threads |-> all_threads,
           out |-> Return(IF Len(all_threads) = 0 THEN None ELSE Some(all_threads)) ]
    ELSE IF page.kind = "http_error"
    THEN [ again |-> FALSE, all_threads |-> all_threads,
           out |-> IF Len(all_threads) = 0 THEN Return(None) ELSE Return(Some(all_threads)) ]
    ELSE
      LET threads == [i \in 1..page.n |-> [id |-> Len(all_threads) + i]]
          extended == all_threads \o threads
      IN  IF page.n = 0
          THEN [ again |-> FALSE, all_threads |-> all_threads,
                 out |-> Return(Some(all_threads)) ]
          ELSE IF page.after /\ Len(extended) < limit
          THEN [ again |-> TRUE, all_threads |-> extended, out |-> Return(None) ]
          ELSE [ again |-> FALSE, all_threads |-> extended,
                 out |-> Return(Some(extended)) ]

\* one turn of the while loop (lines 78-112) and, when the loop ends, the
\* return it leads to (114-128); again: the loop takes another turn
loop_body(limit, all_threads, page) ==
    IF page.kind = "raise"
    THEN \* the except branch
         [ again |-> FALSE, all_threads |-> all_threads,
           out |-> Return(IF Len(all_threads) = 0 THEN None ELSE Some(all_threads)) ]
    ELSE IF page.kind = "http_error"
    THEN [ again |-> FALSE, all_threads |-> all_threads,
           out |-> IF Len(all_threads) = 0 THEN Return(None)
                   ELSE trim_and_return(limit, all_threads) ]
    ELSE
      LET threads == [i \in 1..page.n |-> [id |-> Len(all_threads) + i]]
          extended == all_threads \o threads
      IN  IF page.n = 0
          THEN [ again |-> FALSE, all_threads |-> all_threads,
                 out |-> trim_and_return(limit, all_threads) ]
          ELSE IF page.after /\ Len(extended) < limit
          THEN [ again |-> TRUE, all_threads |-> extended, out |-> Return(None) ]
          ELSE [ again |-> FALSE, all_threads |-> extended,
                 out |-> trim_and_return(limit, extended) ]

\* get_user_id and the entry of the loop
call_get_user_threads(limit, net) ==
    /\ gen.pc = "idle"
    /\ gen' =
          IF net = "uid_raise"
          THEN DirectCall("get_user_threads", [limit |-> limit],
                          [ out |-> Raise("ConnectionError"), requests |-> 0,
                            fetched |-> 0, failed |-> FALSE ])
          ELSE IF net = "uid_none"
          THEN DirectCall("get_user_threads", [limit |-> limit],
                          [ out |-> Return(None), requests |-> 0,
                            fetched |-> 0, failed |-> FALSE ])
          ELSE IF ~(0 < limit)
          THEN DirectCall("get_user_threads", [limit |-> limit],
                          [ out |-> trim_and_return(limit, <<>>), requests |-> 0,
                            fetched |-> 0, failed |-> FALSE ])
          ELSE [GenIdle EXCEPT !.pc = "pages", !.fn = "get_user_threads",
                               !.caller = "call", !.log = << [limit |-> limit] >>]
    /\ UNCHANGED <<batch, posts, last_response, posted>>

\* one page request and what the loop does with its answer
get_user_threads_page(page) ==
    /\ gen.pc = "pages"
    /\ gen.attempt < MaxLimit + 2
    /\ LET turn == loop_body(gen.log[1].limit, gen.events, page)
       IN  gen' =
             IF turn.again
             THEN [gen EXCEPT !.events = turn.all_threads, !.attempt = @ + 1]
             ELSE [gen EXCEPT !.pc = "done", !.events = <<>>, !.attempt = 0,
                              !.result = Some([ out |-> turn.out,
                                                requests |-> gen.attempt + 1,
                                                fetched |-> Len(turn.all_threads),
                                                failed |-> page.kind # "ok" ])]
    /\ UNCHANGED <<batch, posts, last_response, posted>>

InitCommon ==
    /\ gen = GenIdle
    /\ batch = BatchIdle
    /\ posts = <<>>
    /\ last_response = None
    /\ posted = <<>>

InitGen == InitCommon

NextGen ==
    \/ \E b \in Briefs : generate_post_for_brief(b)
    \/ \E t \in Topics, f \in FetchOutcomes : generate_post_from_analysis(t, f)
    \/ \E o \in ModelOutcomes : generate_post(o)
    \/ gen_return

SpecGen == InitGen /\ [][NextGen]_vars

InitBatch == InitCommon

NextBatch ==
    \/ \E rs \in SeqsUpTo(BatchItems, MaxBatch), d \in DelayChoices :
           post_multiple_approved(rs, d)
    \/ batch_post
    \/ batch_sleep
    \/ batch_return

SpecBatch == InitBatch /\ [][NextBatch]_vars

InitApi == InitCommon

NextApi ==
    \/ \E f \in BriefFetchOutcomes : generate_briefs_begin(f)
    \/ \E t \in Topics, f \in FetchOutcomes : generate_analysis_begin(t, f)
    \/ \E o \in ApiModelOutcomes : generate_post(o)
    \/ generate_briefs_end
    \/ generate_analysis_end
    \/ \E id \in PostIds : approve_post(id)
    \/ \E id \in PostIds : reject_post(id)
    \/ \E id \in PostIds : publish_post(id)
    \/ \E id \in PostIds : approve_py_approve_post(id)
    \/ \E id \in PostIds : approve_py_reject_post(id)
    \/ \E id \in PostIds : approve_py_publish_post(id)

SpecApi == InitApi /\ [][NextApi]_vars

\* the requests of api/index.py on drafts generated from briefs, text edits included
InitEdit == InitCommon

NextEdit ==
    \/ \E f \in BriefFetchOutcomes : generate_briefs_begin(f)
    \/ \E o \in ApiModelOutcomes : generate_post(o)
    \/ generate_briefs_end
    \/ \E id \in PostIds, t \in EditTexts : update_post_text(id, t)
    \/ \E id \in PostIds : approve_post(id)
    \/ \E id \in PostIds : reject_post(id)
    \/ \E id \in PostIds : publish_post(id)

SpecEdit == InitEdit /\ [][NextEdit]_vars

\* the requests of api/index.py on drafts of the connection path
NextConn ==
    \/ \E ct \in ConnectionTypes : generate_connection_begin(ct)
    \/ \E o \in ApiModelOutcomes : generate_post(o)
    \/ generate_connection_end
    \/ \E id \in PostIds : approve_post(id)
    \/ \E id \in PostIds : reject_post(id)

SpecConn == InitCommon /\ [][NextConn]_vars

\* direct calls of the text operations and of post_thread
NextText ==
    \/ \E t \in TextInputs \cup SymbolInputs : call_validate_content(t)
    \/ \E t \in TextInputs \cup SymbolInputs : call_remove_emojis(t)
    \/ \E t \in LongInputs \cup PublishInputs : call_truncate_text_smart(t, 500)
    \/ \E t \in PublishInputs, net \in NetOutcomes : call_post_thread(t, net)
    \/ \E b \in Briefs, strict \in BOOLEAN : call_build_post_prompt(b, strict)
    \/ \E ct \in ConnectionTypes, strict \in BOOLEAN :
           call_build_connection_prompt(ct, strict)
    \/ \E f \in {o \in FetchOutcomes : o.kind = "ret"} :
           call_format_for_prompt(IF IsNone(f.value) THEN None
                                  ELSE analyze_posts(Val(f.value)))
    \/ \E t \in LongInputs \cup PublishInputs : call_truncate_to_limit(t, 500)
    \/ \E limit \in 0..MaxLimit, net \in {"ok", "uid_none", "uid_raise"} :
           call_get_user_threads(limit, net)
    \/ \E page \in PageResponses : get_user_threads_page(page)
    \/ gen_return

SpecText == InitCommon /\ [][NextText]_vars

(***************************************************************************)
(* Requests served side by side (index.py on several workers or function   *)
(* instances over the one table).  A handler reads the row, tests the      *)
(* status it read and later writes; gen.log holds the requests that have   *)
(* read and not yet answered, each with the row it read.                   *)
(***************************************************************************)
MaxInFlight == 2

\* what the table's update call can do: write the row, or raise
StoreOutcomes == { "ok", "error" }

InFlight(handler, k) ==
    /\ k \in 1..Len(gen.log)
    /\ gen.log[k].handler = handler

Drop(k) ==
    [gen EXCEPT !.log = SubSeq(@, 1, k - 1) \o SubSeq(@, k + 1, Len(@))]

\* storage.get_post and the status tests of a handler that admits `admitted`
handler_read(handler, post_id, admitted, refusal) ==
    /\ batch.pc = "idle"
    /\ Len(gen.log) < MaxInFlight
    /\ LET post == get_post(posts, post_id)
       IN  IF IsNone(post)
           THEN /\ last_response' =
                       Response(handler, post_id, 404, Some(<<"Post not found">>), None)
                /\ UNCHANGED gen
           ELSE IF Val(post).status \notin admitted
           THEN /\ last_response' =
                       Response(handler, post_id, 400,
                                Some(<<refusal, Val(post).status>>), None)
                /\ UNCHANGED gen
           ELSE /\ gen' = [gen EXCEPT !.log =
                              Append(@, [ handler |-> handler, post_id |-> post_id,
                                          post |-> Val(post), post_result |-> None ])]
                /\ UNCHANGED last_response
    /\ UNCHANGED <<batch, posts, posted>>

approve_post_read(post_id) ==
    handler_read("approve_post", post_id, {"pending", "approved"}, "Cannot approve: ")

reject_post_read(post_id) ==
    handler_read("reject_post", post_id, {"pending"}, "Post is already ")

publish_post_read(post_id) ==
    handler_read("publish_post", post_id, {"approved", "pending"},
                 "Post must be approved or pending to publish. Current status: ")

\* storage.update_status(post_id, status) and the answer of approve or reject
status_write(handler, k, status, store) ==
    /\ InFlight(handler, k)
    /\ LET post_id == gen.log[k].post_id
       IN  IF store = "error"
           THEN /\ last_response' = Response(handler, post_id, 500, Some(<<"str(e)">>), None)
                /\ UNCHANGED posts
           ELSE /\ posts' = update_status(posts, post_id, status, None, None)
                /\ last_response' = Response(handler, post_id, 200, None,
                                             Some([success |-> TRUE, status |-> status]))
    /\ gen' = Drop(k)
    /\ UNCHANGED <<batch, posted>>

approve_post_write(k, store) == status_write("approve_post", k, "approved", store)

reject_post_write(k, store) == status_write("reject_post", k, "rejected", store)

\* generator.post_approved_post(result) with the row the request read
publish_post_send(k, net) ==
    /\ InFlight("publish_post", k)
    /\ IsNone(gen.log[k].post_result)
    /\ Len(posted) < MaxThreads
    /\ LET post_id == gen.log[k].post_id
           pa == post_approved_post(PublishResult(gen.log[k].post), net, posted)
       IN  /\ posted' = pa.posted
           /\ IF pa.out.kind = "raise"
              THEN /\ last_response' = Response("publish_post", post_id, 500,
                           Some(<<"Failed to post to Threads: ", pa.out.exc>>), None)
                   /\ gen' = Drop(k)
              ELSE IF ~pa.out.value.success
              THEN /\ last_response' = Response("publish_post", post_id, 500,
                           Some(<<"Failed to post to Threads: ", pa.out.value.error>>), None)
                   /\ gen' = Drop(k)
              ELSE /\ gen' = [gen EXCEPT !.log[k].post_result = Some(pa.out.value)]
                   /\ UNCHANGED last_response
    /\ UNCHANGED <<batch, posts>>

\* storage.update_status(post_id, "published", ...), the mail and the answer
publish_post_write(k, store, mail) ==
    /\ InFlight("publish_post", k)
    /\ ~IsNone(gen.log[k].post_result)
    /\ LET post_id == gen.log[k].post_id
           post_result == Val(gen.log[k].post_result)
           conf == _send_email(mail)
       IN  IF store = "error"
           THEN /\ last_response' = Response("publish_post", post_id, 500,
                                             Some(<<"Error publishing post: ">>), None)
                /\ UNCHANGED posts
           ELSE /\ posts' = update_status(posts, post_id, "published",
                                          post_result.thread_id, post_result.thread_url)
                /\ last_response' = Response("publish_post", post_id, 200, None,
                       Some([ success |-> TRUE,
                              thread_id |-> post_result.thread_id,
                              thread_url |-> post_result.thread_url,
                              printed |-> IF mail = "no_recipient" THEN <<>>
                                          ELSE conf.printed ]))
    /\ gen' = Drop(k)
    /\ UNCHANGED <<batch, posted>>

\* one pending draft, as generate_briefs stores it
InitRace ==
    /\ gen = GenIdle
    /\ batch = BatchIdle
    /\ posts = create_post(<<>>, T_VALID, "briefs",
                           [brief |-> Some(ApiBrief), attempts |-> 1])
    /\ last_response = None
    /\ posted = <<>>

NextRace ==
    \/ \E id \in PostIds : approve_post_read(id)
    \/ \E id \in PostIds : reject_post_read(id)
    \/ \E id \in PostIds : publish_post_read(id)
    \/ \E k \in 1..MaxInFlight, store \in StoreOutcomes : approve_post_write(k, store)
    \/ \E k \in 1..MaxInFlight, store \in StoreOutcomes : reject_post_write(k, store)
    \/ \E k \in 1..MaxInFlight, net \in NetOutcomes : publish_post_send(k, net)
    \/ \E k \in 1..MaxInFlight, store \in StoreOutcomes, mail \in MailOutcomes :
           publish_post_write(k, store, mail)

SpecRace == InitRace /\ [][NextRace]_vars

(***************************************************************************)
(* Properties                                                              *)
(***************************************************************************)
Rows == 1..Len(posts)

AllowedStatusChange ==
    { <<"pending", "approved">>, <<"approved", "approved">>, <<"pending", "rejected">>,
      <<"pending", "published">>, <<"approved", "published">> }

\* C1: under any sequence of approve, reject and publish requests, a draft's
\* status changes only along pending->approved, approved->approved,
\* pending->rejected, pending->published and approved->published; a published
\* or rejected draft never changes status, and approving a rejected draft is
\* refused (400, table unchanged).
C1_StatusMachine ==
    [][ /\ Len(posts') >= Len(posts)
        /\ \A id \in Rows :
              /\ posts'[id].status # posts[id].status
                    => <<posts[id].status, posts'[id].status>> \in AllowedStatusChange
              /\ posts[id].status \in {"published", "rejected"}
                    => posts'[id].status = posts[id].status
        /\ \A id \in Rows :
              (/\ posts[id].status = "rejected"
               /\ approve_post(id) \/ approve_py_approve_post(id))
                 => /\ Val(last_response').status_code = 400
                    /\ posts' = posts
      ]_vars

\* a rejected draft whose approval was just refused, next to a published draft
C1_Witness ==
    /\ Len(posts) = 2
    /\ posts[1].status = "rejected"
    /\ posts[2].status = "published"
    /\ ~IsNone(last_response)
    /\ Val(last_response).handler = "approve_post"
    /\ Val(last_response).post_id = 1
    /\ Val(last_response).status_code = 400

\* C2: when post_thread reports success = false, the publish operation reports
\* failure with the reason and the draft's stored status is left unchanged.
C2_FailedPublishKeepsStatus ==
    [][ \A id \in Rows, net \in NetOutcomes :
          LET pt == post_thread(posts[id].post_text, TRUE, net, posted)
          IN  (/\ publish_post_with(id, net) \/ approve_py_publish_post_with(id, net)
               /\ posts[id].status \in {"pending", "approved"}
               /\ ~IsNone(MetaGet(posts[id], "brief"))
               /\ pt.out.kind = "ret"
               /\ ~pt.out.value.success)
                 => /\ Val(last_response').status_code # 200
                    /\ ~IsNone(Val(last_response').detail)
                    /\ posts'[id].status = posts[id].status
      ]_vars

\* C3: the result's attempts is 1 or 2 and generate_post is invoked at most
\* twice per orchestrator call; attempts = 2 only if the attempt-1 text was
\* rejected by validation with a reason containing "too long"; a null text or
\* a non-length validation failure on attempt 1 is terminal with attempts = 1.
C3_RetryBound ==
    /\ Len(gen.log) + (IF gen.pc = "model" THEN 1 ELSE 0) <= 2
    /\ (gen.pc = "done" /\ ~IsNone(gen.result)) =>
          LET r == Val(gen.result)
          IN  /\ "attempts" \in DOMAIN r
              /\ r.attempts \in {1, 2}
              /\ r.attempts = Len(gen.log)
              /\ LET first       == gen.log[1].returned
                     too_long_1  ==
                         /\ ~IsNone(first)
                         /\ Len(Val(first)) > 0
                         /\ ~validate_content(Val(first))[1]
                         /\ contains(lower(validate_content(Val(first))[2]), TOO_LONG)
                     valid_1     ==
                         ~IsNone(first) /\ Len(Val(first)) > 0
                             /\ validate_content(Val(first))[1]
                 IN  /\ r.attempts = 2 => too_long_1
                     /\ (~too_long_1 /\ ~valid_1) => (r.attempts = 1 /\ ~r.valid)

\* C4: a result with valid = true has a non-null text of 10 to 500
\* characters without any character of the emoji ranges, and no error.
C4_ValidResultIsClean ==
    (gen.pc = "done" /\ ~IsNone(gen.result) /\ Val(gen.result).valid) =>
        LET r == Val(gen.result)
        IN  /\ ~IsNone(r.generated_post)
            /\ Len(Val(r.generated_post)) <= 500
            /\ Len(Val(r.generated_post)) >= 10
            /\ \A i \in 1..Len(Val(r.generated_post)) :
                  \A rg \in EmojiRanges :
                     ~(rg[1] <= Val(r.generated_post)[i] /\ Val(r.generated_post)[i] <= rg[2])
            /\ IsNone(r.error)

\* a valid result whose text is exactly at the limit
C4_Witness ==
    /\ gen.pc = "done"
    /\ ~IsNone(gen.result)
    /\ Val(gen.result).valid
    /\ Len(Val(Val(gen.result).generated_post)) = 500

\* "Content too long (" n " chars, max 500)"
TooLongReason(n) ==
    <<67, 111, 110, 116, 101, 110, 116, 32, 116, 111, 111, 32, 108, 111, 110, 103, 32, 40>> \o str_int(n) \o
    <<32, 99, 104, 97, 114, 115, 44, 32, 109, 97, 120, 32, 53, 48, 48, 41>>

\* C5: when attempt 1 returns a text longer than 500 characters, validation
\* reports "Content too long (n chars, max 500)", attempt 1's prompt was built
\* with strict_length = false and attempt 2 is issued with a prompt built with
\* strict_length = true; if attempt 2 returns a valid text the result has
\* attempts = 2 and valid = true.
C5_LengthRetry ==
    (Len(gen.log) >= 1 /\ ~IsNone(gen.log[1].returned)
        /\ Len(Val(gen.log[1].returned)) > 500) =>
        /\ validate_content(Val(gen.log[1].returned))
              = <<FALSE, TooLongReason(Len(Val(gen.log[1].returned)))>>
        /\ ~gen.log[1].strict_length
        /\ Val(gen.log[1].prompt).length_requirement = LENGTH_REQUIREMENT
        /\ Len(gen.log) = 1 =>
              /\ gen.pc = "model"
              /\ gen.attempt = 1
              /\ gen.strict_length
              /\ Val(gen.prompt).length_requirement = LENGTH_REQUIREMENT_STRICT
        /\ Len(gen.log) = 2 =>
              /\ gen.log[2].strict_length
              /\ Val(gen.log[2].prompt).length_requirement = LENGTH_REQUIREMENT_STRICT
              /\ gen.pc = "done"
              /\ (~IsNone(gen.log[2].returned) /\ Len(Val(gen.log[2].returned)) > 0
                    /\ validate_content(Val(gen.log[2].returned))[1])
                    => /\ Val(gen.result).attempts = 2
                       /\ Val(gen.result).valid
                       /\ Val(gen.result).generated_post = gen.log[2].returned

\* a 501-character first text, then a valid second one
C5_Witness ==
    /\ gen.pc = "done"
    /\ Len(gen.log) = 2
    /\ Len(Val(gen.log[1].returned)) = 501
    /\ Val(gen.result).valid
    /\ Val(gen.result).attempts = 2

\* C6: for a draft in status approved or pending of any mode, when the publish
\* target accepts the text, publishing sends the stored text to the target and
\* the draft becomes published with the returned identifier and URL recorded.
C6_PublishAnyMode ==
    [][ \A id \in Rows :
          (/\ publish_post_with(id, "ok")
           /\ posts[id].status \in {"pending", "approved"})
             => /\ posted' = Append(posted, [ id |-> Len(posted) + 1,
                                              text |-> posts[id].post_text ])
                /\ posts'[id].status = "published"
                /\ posts'[id].thread_id = Some(Len(posted) + 1)
                /\ ~IsNone(posts'[id].thread_url)
      ]_vars

\* the invocations of generate_post: those that returned and the running one
Invocations ==
    [i \in 1..Len(gen.log) |-> gen.log[i]] \o
    (IF gen.pc = "model" THEN << [events |-> gen.events, running |-> TRUE] >> ELSE <<>>)

Calls(events) == SelectSeq(events, LAMBDA e : e.ev = "call")

\* C7: generate_post calls the model at most 3 times, returns the
\* post-processed text of the first call that succeeds without calling the
\* model again, returns null only after all 3 calls have failed, and never
\* raises.
C7_GeneratePost ==
    /\ \A i \in 1..Len(Invocations) : Len(Calls(Invocations[i].events)) <= 3
    /\ \A i \in 1..Len(gen.log) :
          LET calls == Calls(gen.log[i].events)
              n     == Len(calls)
          IN  /\ n >= 1
              /\ \A k \in 1..(n - 1) : calls[k].outcome.kind # "text"
              /\ ~IsNone(gen.log[i].returned) =>
                    /\ calls[n].outcome.kind = "text"
                    /\ gen.log[i].returned = Some(post_process(calls[n].outcome.content))
              /\ IsNone(gen.log[i].returned) =>
                    /\ n = 3
                    /\ calls[n].outcome.kind # "text"
    /\ ~IsNone(gen.exc) => (Len(gen.log) = 0 /\ gen.events = <<>>)

\* a call that succeeded at the third model call, and one that failed 3 times
C7_Witness ==
    /\ Len(gen.log) = 2
    /\ Len(Calls(gen.log[1].events)) = 3
    /\ ~IsNone(gen.log[1].returned)
    /\ IsNone(gen.log[2].returned)

\* C8: between failed model call k and model call k+1 (k = 1, 2) generate_post
\* waits 2 seconds, then 4 seconds; it does not wait before the first call or
\* after the third failed call.
C8_Backoff ==
    \A i \in 1..Len(Invocations) :
        LET ev == Invocations[i].events
        IN  /\ Len(ev) <= 5
            /\ \A j \in 1..Len(ev) :
                  IF j % 2 = 1
                  THEN ev[j].ev = "call" /\ ev[j].attempt = (j + 1) \div 2
                  ELSE /\ ev[j].ev = "sleep"
                       /\ ev[j].secs = (IF j = 2 THEN 2 ELSE 4)
                       /\ ev[j - 1].outcome.kind # "text"
            /\ \A j \in 1..(Len(ev) - 1) :
                  (ev[j].ev = "call" /\ ev[j].outcome.kind # "text")
                      => ev[j + 1].ev = "sleep"
            /\ "running" \notin DOMAIN Invocations[i] => Len(ev) % 2 = 1

\* three failed calls: call, 2 s, call, 4 s, call
C8_Witness ==
    /\ Len(gen.log) >= 1
    /\ Len(gen.log[1].events) = 5
    /\ IsNone(gen.log[1].returned)
    /\ gen.log[1].events[2].secs = 2
    /\ gen.log[1].events[4].secs = 4

\* C9: batch publish processes its items in order and sleeps the configured
\* delay exactly between successive publish calls: none before the first,
\* none after the last, n - 1 for the n items of a batch that returns.
C9_BatchDelays ==
    LET ev == batch.events
    IN  /\ \A j \in 1..Len(ev) :
              IF j % 2 = 1
              THEN ev[j].ev = "publish" /\ ev[j].item = (j + 1) \div 2
              ELSE ev[j].ev = "sleep" /\ ev[j].secs = batch.delay_seconds
        /\ batch.pc = "done" => (Len(ev) = 0 \/ Len(ev) % 2 = 1)
        /\ batch.pc = "sleep" => Len(ev) % 2 = 1
        /\ batch.pc = "post" => Len(ev) % 2 = 0
        /\ (batch.pc = "done" /\ IsNone(batch.exc) /\ Len(batch.valid_posts) >= 1) =>
              /\ Len(SelectSeq(ev, LAMBDA e : e.ev = "publish")) = Len(batch.valid_posts)
              /\ Len(SelectSeq(ev, LAMBDA e : e.ev = "sleep")) = Len(batch.valid_posts) - 1

\* a batch of three items that returned: publish, sleep, publish, sleep, publish
C9_Witness ==
    /\ batch.pc = "done"
    /\ IsNone(batch.exc)
    /\ Len(batch.valid_posts) = 3
    /\ Len(batch.events) = 5

\* C10: batch publish returns exactly one success/failure entry per valid
\* input item, in input order; a failure while publishing one item does not
\* prevent the remaining items from being attempted.
C10_BatchAggregates ==
    batch.pc = "done" =>
        /\ IsNone(batch.exc)
        /\ Len(batch.posting_results) = Len(batch.valid_posts)
        /\ \A k \in 1..Len(batch.valid_posts) :
              batch.posting_results[k].result = batch.valid_posts[k]
        /\ Len(SelectSeq(batch.events, LAMBDA e : e.ev = "publish"))
              = Len(batch.valid_posts)

\* C11: once a draft's status is published its text never changes: a
\* text-update request on a published draft is rejected (400) and leaves the
\* stored records unchanged, whatever requests came before.
C11_PublishedTextFrozen ==
    [][ \A id \in Rows :
          posts[id].status = "published" =>
              /\ posts'[id].post_text = posts[id].post_text
              /\ \A t \in EditTexts :
                    update_post_text(id, t) =>
                        /\ Val(last_response').status_code = 400
                        /\ posts' = posts
      ]_vars

\* a draft edited while pending, then published, whose next edit was refused
C11_Witness ==
    /\ ~IsNone(last_response)
    /\ Val(last_response).handler = "update_post_text"
    /\ Val(last_response).status_code = 400
    /\ posts[Val(last_response).post_id].status = "published"
    /\ posts[Val(last_response).post_id].post_text \in EditTexts

\* C12: a draft row is created only when a generation request ends with a valid
\* Generation Result, and then exactly one: status "pending", the generated text,
\* the mode tag of the request's path; a request whose generation failed or was
\* invalid leaves the table as it was.
C12_DraftOnlyAfterValid ==
    [][ /\ Len(posts') \in {Len(posts), Len(posts) + 1}
        /\ SubSeq(posts', 1, Len(posts)) # posts
              => Len(posts') = Len(posts) /\ gen.pc = "idle"
        /\ Len(posts') = Len(posts) + 1 =>
              /\ gen.pc = "done" /\ IsNone(gen.exc)
              /\ Val(gen.result).valid
              /\ validate_content(Val(Val(gen.result).generated_post))[1]
              /\ LET row == posts'[Len(posts')]
                 IN  /\ row.status = "pending"
                     /\ row.post_text = Val(Val(gen.result).generated_post)
                     /\ row.mode = IF gen.caller = "generate_briefs"
                                   THEN "briefs" ELSE "analysis"
        /\ generate_briefs_end \/ generate_analysis_end =>
              IF IsNone(gen.exc) /\ Val(gen.result).valid
              THEN Len(posts') = Len(posts) + 1
              ELSE posts' = posts ]_vars

\* each path has stored one draft; the last request answered with the second
C12_Witness ==
    /\ Len(posts) = 2
    /\ posts[1].mode # posts[2].mode
    /\ \A id \in Rows : posts[id].mode \in {"briefs", "analysis"}
    /\ ~IsNone(last_response)
    /\ Val(last_response).handler \in {"generate_briefs", "generate_analysis"}
    /\ Val(last_response).status_code = 200

\* C13: a connection request runs with no brief and no analysis; when the text
\* the model call returned passes validate_content, the request ends with a
\* valid Generation Result whose prompt is the connection prompt, and stores
\* one draft with mode "connection" and status "pending" holding that text.
C13_ConnectionPath ==
    [][ generate_connection_end =>
          /\ IsNone(gen.brief) /\ IsNone(gen.analysis) /\ IsNone(gen.exc)
          /\ LET returned == gen.log[Len(gen.log)].returned
                 result   == Val(gen.result)
             IN  ~IsNone(returned) /\ validate_content(Val(returned))[1] =>
                   /\ result.valid
                   /\ result.generated_post = returned
                   /\ DOMAIN result \cap {"brief", "analysis"} = {}
                   /\ Val(result.prompt_used) =
                          build_connection_prompt(gen.connection_type, gen.strict_length)
                   /\ Len(posts') = Len(posts) + 1
                   /\ SubSeq(posts', 1, Len(posts)) = posts
                   /\ posts'[Len(posts')].mode = "connection"
                   /\ posts'[Len(posts')].status = "pending"
                   /\ posts'[Len(posts')].post_text = Val(returned)
                   /\ Val(last_response').status_code = 200 ]_vars

\* a connection request with a connection type has just stored its draft
C13_Witness ==
    /\ ~IsNone(last_response)
    /\ Val(last_response).handler = "generate_connection"
    /\ Val(last_response).status_code = 200
    /\ Len(posts) >= 1
    /\ posts[Len(posts)].mode = "connection"
    /\ posts[Len(posts)].status = "pending"
    /\ posts[Len(posts)].metadata.connection_type = Some(T_FOUNDERS)

\* what get_user_threads returned holds no post with a non-empty text
NothingToAnalyze(fetched) ==
    /\ fetched.kind = "ret"
    /\ \/ IsNone(fetched.value)
       \/ \A i \in 1..Len(Val(fetched.value)) : Len(Val(fetched.value)[i].text) = 0

\* C14: when the fetch of past posts returns nothing (None or an empty list) or
\* the posts hold no non-empty text, the Analyzer's result is empty and
\* generate_post_from_analysis returns at once: no model call, valid false,
\* generated text null.
C14_AnalysisFailsFast ==
    [][ \A t \in Topics, f \in FetchOutcomes :
          generate_post_from_analysis(t, f) /\ NothingToAnalyze(f) =>
              /\ IsNone(f.value) \/ IsNone(analyze_posts(Val(f.value)))
              /\ gen'.pc = "done"
              /\ IsNone(gen'.exc)
              /\ gen'.events = <<>> /\ gen'.log = <<>> /\ IsNone(gen'.prompt)
              /\ Val(gen'.result).valid = FALSE
              /\ IsNone(Val(gen'.result).generated_post)
              /\ ~IsNone(Val(gen'.result).error) ]_vars

\* a call from analysis has returned "Post analysis failed" without a model call
C14_Witness ==
    /\ gen.pc = "done"
    /\ gen.fn = "generate_post_from_analysis"
    /\ gen.log = <<>>
    /\ ~IsNone(gen.result)
    /\ Val(gen.result).error = Some(F_ANALYSIS)
    /\ Val(gen.result).valid = FALSE

\* C15: when a publish request has made the publish target publish the draft,
\* the draft is recorded as published and the request answers success, whatever
\* happens to the confirmation mail (sent, SMTP failure reported as False, or an
\* exception), through api/index.py and through api/approve.py alike.
C15_MailFailureKeepsPublish ==
    [][ posted' # posted =>
          LET response == Val(last_response')
          IN  /\ response.handler \in {"publish_post", "approve_py_publish_post"}
              /\ posted'[Len(posted')].text = posts[response.post_id].post_text
              /\ posts'[response.post_id].status = "published"
              /\ response.status_code = 200
              /\ Val(response.body).success ]_vars

\* a publish request answered success although the confirmation mail failed
C15_Witness ==
    /\ ~IsNone(last_response)
    /\ Val(last_response).handler \in {"publish_post", "approve_py_publish_post"}
    /\ Val(last_response).status_code = 200
    /\ Val(Val(last_response).body).printed = <<"Error sending email: ">>
    /\ posts[Val(last_response).post_id].status = "published"
    /\ Len(posted) >= 1

\* C16: every call of the orchestrator's generation operations ends with a
\* structured result (valid, generated_post and error fields, a reason when it
\* is a failure), whatever the collaborators did; no exception of a
\* collaborator reaches the caller.
C16_NoExceptionEscapes ==
    gen.pc = "done" =>
        /\ IsNone(gen.exc)
        /\ ~IsNone(gen.result)
        /\ {"valid", "generated_post", "error"} \subseteq DOMAIN Val(gen.result)
        /\ ~Val(gen.result).valid => ~IsNone(Val(gen.result).error)

\* the argument and the returned value of the direct call that has just ended
CallOf(fn) == gen.pc = "done" /\ gen.fn = fn

CallText == gen.log[1].text

CallReturned == Val(gen.result)

\* C17: validate_content returns a pair (never an exception); the pair is
\* (false, non-empty reason) exactly when the text is empty or only whitespace,
\* longer than 500, shorter than 10, holds a character of the emoji ranges, or
\* begins with "Here's" and is shorter than 50; otherwise it is (true, "").
C17_ValidateExactly ==
    CallOf("validate_content") =>
        LET text   == CallText
            reject == \/ Len(text) = 0
                      \/ \A i \in 1..Len(text) : text[i] \in Whitespace
                      \/ Len(text) > 500
                      \/ Len(text) < 10
                      \/ \E i \in 1..Len(text) : \E r \in EmojiRanges :
                             r[1] <= text[i] /\ text[i] <= r[2]
                      \/ SubSeq(text, 1, 6) = HERES /\ Len(text) < 50
        IN  /\ CallReturned[1] \in BOOLEAN
            /\ CallReturned[1] = ~reject
            /\ reject <=> Len(CallReturned[2]) > 0

\* a 50-character text beginning with "Here's" has been found valid
C17_Witness ==
    /\ CallOf("validate_content")
    /\ Len(CallText) = 50
    /\ SubSeq(CallText, 1, 6) = HERES
    /\ CallReturned = <<TRUE, <<>>>>

\* C18: when _truncate_text_smart is given a text longer than max_chars, and the
\* last sentence terminator (?, ! or .) among the first max_chars characters is
\* at or after 70% of max_chars, the result is the text up to and including
\* that terminator, trimmed.
C18_CutAtNearestTerminator ==
    CallOf("_truncate_text_smart") =>
        LET text      == CallText
            max_chars == gen.log[1].max_chars
            terms     == { p \in 1..max_chars : p <= Len(text) /\ text[p] \in {QMARK, EXCL, DOT} }
            nearest   == CHOOSE p \in terms : \A q \in terms : q <= p
        IN  Len(text) > max_chars /\ terms # {} /\ nearest * 10 >= max_chars * 7 =>
                CallReturned = strip(SubSeq(text, 1, nearest))

\* the non-whitespace characters of a text, in order
Solid(t) == SelectSeq(t, LAMBDA c : c \notin Whitespace)

\* two whitespace characters side by side
HasWhitespaceRun(t) ==
    \E i \in 1..(Len(t) - 1) : t[i] \in Whitespace /\ t[i + 1] \in Whitespace

\* C19: the text remove_emojis returns holds no character of the emoji ranges,
\* holds the input's other non-whitespace characters in their order, and shows
\* no whitespace artifact of the removal: a removal leaves at most a single
\* space, so an input without adjacent whitespace gives an output without.
C19_RemoveEmojisClean ==
    CallOf("remove_emojis") =>
        LET text == CallText
            out  == CallReturned
        IN  /\ \A i \in 1..Len(out) : \A r \in EmojiRanges : out[i] < r[1] \/ out[i] > r[2]
            /\ Solid(out) = Solid(SelectSeq(text, NotEmoji))
            /\ ~HasWhitespaceRun(text) => ~HasWhitespaceRun(out)

\* C20: post_thread answers a text longer than 500 characters with a failure
\* result without sending any request (and publishes nothing); a text of 500
\* characters or fewer is never refused for its length: the call goes to the
\* network, and succeeds when the network does.
C20_LengthGate ==
    [][ \A t \in PublishInputs, net \in NetOutcomes :
          call_post_thread(t, net) =>
              LET ret == Val(gen'.result)
              IN  IF Len(t) > 500
                  THEN /\ ret.out = Return([ success |-> FALSE,
                                 error |-> "Thread text cannot exceed 500 characters",
                                 status_code |-> 400 ])
                       /\ ret.requests = 0
                       /\ posted' = posted
                  ELSE /\ ret.requests >= 1
                       /\ ret.out.kind = "ret" =>
                             /\ "error" \in DOMAIN ret.out.value =>
                                   ret.out.value.error # "Thread text cannot exceed 500 characters"
                             /\ net = "ok" => ret.out.value.success /\ posted' # posted ]_vars

\* a 501-character text was refused with no request although the network was
\* fine, after a 500-character text had been published
C20_Witness ==
    /\ CallOf("post_thread")
    /\ Len(CallText) = 501
    /\ gen.log[1].net = "ok"
    /\ CallReturned.requests = 0
    /\ ~CallReturned.out.value.success
    /\ \E i \in 1..Len(posted) : Len(posted[i].text) = 500

\* C21: every result generate_post_for_brief and generate_post_from_analysis
\* return, failure results included, has an attempts field, and its value is
\* the number of generation attempts the call used.
C21_AttemptsCarried ==
    (gen.pc = "done" /\ gen.caller = "call" /\ ~IsNone(gen.result)) =>
        /\ "attempts" \in DOMAIN Val(gen.result)
        /\ Val(gen.result).attempts = Len(gen.log)

\* "MAXIMUM 500 characters"
MAXIMUM_500 == <<77, 65, 88, 73, 77, 85, 77, 32, 53, 48, 48, 32, 99, 104, 97, 114, 97, 99, 116, 101, 114, 115>>

\* "MAXIMUM 200 characters"
MAXIMUM_200 == <<77, 65, 88, 73, 77, 85, 77, 32, 50, 48, 48, 32, 99, 104, 97, 114, 97, 99, 116, 101, 114, 115>>

\* "100-150"
SOFT_100_150 == <<49, 48, 48, 45, 49, 53, 48>>

\* "500"
DIGITS_500 == <<53, 48, 48>>

\* C22: the text of every connection prompt (strict or not, with or without a
\* connection type) states "MAXIMUM 200 characters" and the 100-150 target and
\* holds "500" nowhere; the text of every brief-based prompt (strict or not)
\* holds the brief's topic and the phrase "MAXIMUM 500 characters".
C22_PromptCeilings ==
    /\ CallOf("build_connection_prompt") =>
          /\ contains(CallReturned, MAXIMUM_200)
          /\ contains(CallReturned, SOFT_100_150)
          /\ ~contains(CallReturned, DIGITS_500)
    /\ CallOf("build_post_prompt") =>
          /\ contains(CallReturned, gen.log[1].brief.topic)
          /\ contains(CallReturned, MAXIMUM_500)

\* a strict connection prompt for founders has been built
C22_Witness ==
    /\ CallOf("build_connection_prompt")
    /\ gen.log[1].strict_length
    /\ gen.log[1].connection_type = Some(T_FOUNDERS)
    /\ contains(CallReturned, CONNECTION_LENGTH_REQUIREMENT_STRICT)

C24_TruncateWithinLimit ==
    CallOf("truncate_to_limit") => Len(CallReturned) <= gen.log[1].max_chars

\* C25: every draft whose status is published has recorded the thread id and
\* the URL that the publish target returned for it.
C25_PublishedHasThread ==
    \A id \in Rows :
        posts[id].status = "published" =>
            /\ ~IsNone(posts[id].thread_id)
            /\ ~IsNone(posts[id].thread_url)
            /\ \E k \in 1..Len(posted) : posted[k].id = Val(posts[id].thread_id)

\* C26: each draft's text is sent to the publish target at most once, for any
\* sequence or interleaving of publish requests on the draft, also when the
\* status update after a successful publish fails: the Threads API never
\* holds two threads made from the same draft.
C26_PublishedAtMostOnce ==
    \A id \in Rows :
        Cardinality({k \in 1..Len(posted) : posted[k].text = posts[id].post_text}) <= 1

\* C27: with approve, reject and publish requests on one draft served side by
\* side, each reading the status and writing later, a draft whose stored
\* status is published or rejected keeps that status.
C27_TerminalUnderRaces ==
    [][ \A id \in Rows :
          posts[id].status \in {"published", "rejected"}
             => posts'[id].status = posts[id].status ]_vars

\* C28: for every text that is not blank and longer than 500 characters the
\* reason validate_content returns contains "too long" (in any letter case),
\* also when the text has another defect such as an emoji; the reason for a
\* text of at most 500 characters never contains "too long".
C28_TooLongFirst ==
    CallOf("validate_content") =>
        LET reason == lower(CallReturned[2])
            blank  == \A i \in 1..Len(CallText) : CallText[i] \in Whitespace
        IN  /\ (~blank /\ Len(CallText) > 500) =>
                   ~CallReturned[1] /\ contains(reason, TOO_LONG)
            /\ Len(CallText) <= 500 => ~contains(reason, TOO_LONG)

\* a text of 501 characters that begins with an emoji was called too long
C28_Witness ==
    /\ CallOf("validate_content")
    /\ Len(CallText) = 501
    /\ CallText[1] = ROCKET
    /\ contains(lower(CallReturned[2]), TOO_LONG)

\* C29: every allowed symbol of a text is still in the text remove_emojis
\* returns, and a text that is valid without its allowed symbols is not
\* rejected by validate_content as containing emojis.
C29_AllowedSymbolsKept ==
    LET allowed == {LIST_MARKERS[i] : i \in 1..Len(LIST_MARKERS)}
    IN  /\ CallOf("remove_emojis") =>
              \A c \in allowed :
                 contains(CallText, <<c>>) => contains(CallReturned, <<c>>)
        /\ CallOf("validate_content") =>
              LET plain == SelectSeq(CallText, LAMBDA c : c \notin allowed)
              IN  (Len(plain) < Len(CallText) /\ validate_content(plain)[1])
                     => CallReturned[2] # MSG_EMOJI

=============================================================================
